---- MODULE Spec2Model ----
(***************************************************************************)
(* The signed-action pipeline of the exchange client                       *)
(* (src/src/exchange/exchange_client.rs, src/src/signature/                *)
(* create_signature.rs).                                                   *)
(*                                                                         *)
(* One client instance lives in one process.  Every mutating operation of  *)
(* ExchangeClient is one action; it runs the whole async fn and leaves in  *)
(* `call` the ordered trace of the steps the function performed (each with *)
(* its input and its outcome) and the value the function returned, or the  *)
(* fact that it panicked.  The caller then takes the result (Return).      *)
(***************************************************************************)
EXTENDS Integers, Sequences, FiniteSets, TLC

VARIABLES
    client,      \* the ExchangeClient: wallet, vault_address, base_url, coin_to_asset
    CUR_NONCE,   \* the process-wide last issued nonce behind next_nonce()
    pc,          \* "idle" | "returned" | "panicked"
    call,        \* the call that last ran: [op, trace, result]
    hashed,      \* second specification: two evaluations of Actions::hash
    tasks,       \* third specification: the call each concurrent task is in
    issued,      \* third specification: the nonces drawn, in the order drawn
    wire,        \* third specification: the POSTs issued, in the order issued
    roundings,     \* fifth specification: a price and its successive roundings
    ws           \* sixth specification: the subscription router and its endpoints

vars == <<client, CUR_NONCE, pc, call, hashed, tasks, issued, wire, roundings, ws>>

(***************************************************************************)
(* Bounds of the model.                                                    *)
(***************************************************************************)
\* Longest batch handed to a bulk operation.
MaxBatch == 2
\* The clock advances at most this many milliseconds over a run.
MaxTick == 1
\* The clock reading (ms) at which the process starts.
NonceBase == 1000
\* The subscriptions made and the frames pushed in the sixth specification.
MaxSubs == 2
MaxArrivals == 2

(***************************************************************************)
(* Program constants.                                                      *)
(***************************************************************************)
\* An Address is 20 bytes (vault_address.0).
AddrLen == 20
\* u64::to_be_bytes yields 8 bytes.
NonceBytes == 8
\* v = recovery id + 27.
RecoveryOffset == 27
\* The signature_chain_id of UsdSend, ApproveBuilderFee, Withdraw3, SpotSend.
ChainIdArbSepolia == 421614
\* The signature_chain_id of UsdClassTransfer: 0xa4b1.
ChainIdArbitrum == 42161
\* Prices are roundings to 5 significant figures.
SigFigs == 5
\* The decimal budget of an asset whose index is below SpotIndexBase.
PerpMaxDecimals == 6
\* The decimal budget of the other assets.
SpotMaxDecimals == 8
\* The asset index from which the other decimal budget applies.
SpotIndexBase == 10000

(***************************************************************************)
(* Option and Result values.                                               *)
(***************************************************************************)
None == <<>>
Some(x) == <<x>>
IsSome(o) == o # <<>>
\* An override that is never looked at.
ignore_override(o, d) == d
unwrap_or(o, d) == IF o = <<>> THEN d ELSE o[1]
\* An `or` that prefers its argument.
or_argument_first(a, b) == IF b # <<>> THEN b ELSE a
or(a, b) == IF a # <<>> THEN a ELSE b

Ok(v) == <<"Ok", v>>
Err(e) == <<"Err", e>>
Panic(m) == <<"Panic", m>>
IsOk(r) == r[1] = "Ok"

(***************************************************************************)
(* Collaborators the client is constructed from.                           *)
(***************************************************************************)
MainnetUrl == "https://api.hyperliquid.xyz"
TestnetUrl == "https://api.hyperliquid-testnet.xyz"
LocalUrl == "http://localhost:3001"
BaseUrls == {MainnetUrl, TestnetUrl, LocalUrl}

\* HttpClient::is_mainnet: the discriminator is read off the base URL.
is_mainnet(http_client) == http_client.base_url = MainnetUrl

\* The perpetual universe of the metadata the client is built from.
Universe == <<"BTC", "ETH">>
\* A symbol the metadata does not list.
UnknownCoin == "XYZ"
Coins == {Universe[i] : i \in 1..Len(Universe)} \cup {UnknownCoin}

Vault1 == [i \in 1..AddrLen |-> 171]
Vault2 == [i \in 1..AddrLen |-> IF i = AddrLen THEN 205 ELSE 171]

DefaultWallet == "wallet0"
AgentWallet == "wallet1"

\* The spot pairs of the spot metadata the client is built from.
SpotUniverse == <<"PURR/USDC">>

\* SpotMeta::add_pair_and_name_to_index_map: every spot pair is inserted
\* under its name with the index SpotIndexBase + its position.
add_pair_and_name_to_index_map(spot, coin_to_asset) ==
    [name \in DOMAIN coin_to_asset \cup {spot[i] : i \in 1..Len(spot)} |->
        IF \E i \in 1..Len(spot) : spot[i] = name
        THEN SpotIndexBase + (CHOOSE i \in 1..Len(spot) : spot[i] = name) - 1
        ELSE coin_to_asset[name]]

\* A construction that numbers the universe from one.
new_one_based(wallet, base_url, meta, vault_address) ==
    [wallet |-> wallet,
     meta |-> meta,
     vault_address |-> vault_address,
     http_client |-> [base_url |-> base_url],
     coin_to_asset |->
        add_pair_and_name_to_index_map(SpotUniverse,
            [name \in {meta[i] : i \in 1..Len(meta)} |->
                CHOOSE i \in 1..Len(meta) : meta[i] = name])]

\* ExchangeClient::new: coin_to_asset maps every universe name to its
\* 0-based position, then takes the spot pairs.
new(wallet, base_url, meta, vault_address) ==
    [wallet |-> wallet,
     meta |-> meta,
     vault_address |-> vault_address,
     http_client |-> [base_url |-> base_url],
     coin_to_asset |->
        add_pair_and_name_to_index_map(SpotUniverse,
            [name \in {meta[i] : i \in 1..Len(meta)} |->
                (CHOOSE i \in 1..Len(meta) : meta[i] = name) - 1])]

\* A nonce that is the clock reading, whatever was issued before.
next_nonce_clock(cur, now_ms) == now_ms

(***************************************************************************)
(* next_nonce: the process-wide counter, bumped past the last issued value *)
(* when the clock has not advanced.                                        *)
(***************************************************************************)
next_nonce(cur, now_ms) == IF now_ms > cur THEN now_ms ELSE cur + 1

(***************************************************************************)
(* Serialization.  A serialized value is a tree of the serde data model:   *)
(*   <<"uint", n>>  <<"bool", b>>  <<"str", s>>  <<"hexstr", bytes>>       *)
(*   <<"u256", n>>  <<"array", <<tree, ...>>>>                             *)
(*   <<"map", << <<key, tree>>, ... >>>>                                   *)
(* serde_json::to_value keeps the tree; rmp_serde::to_vec_named writes it  *)
(* as MessagePack with the struct field names as map keys.                 *)
(***************************************************************************)
U(n) == <<"uint", n>>
B(b) == <<"bool", b>>
S(s) == <<"str", s>>
HexStr(bytes) == <<"hexstr", bytes>>
U256(n) == <<"u256", n>>
Arr(ts) == <<"array", ts>>
Obj(kvs) == <<"map", kvs>>

Utf8(s) ==
    CASE s = "type" -> <<116, 121, 112, 101>>
      [] s = "orders" -> <<111, 114, 100, 101, 114, 115>>
      [] s = "grouping" -> <<103, 114, 111, 117, 112, 105, 110, 103>>
      [] s = "builder" -> <<98, 117, 105, 108, 100, 101, 114>>
      [] s = "cancels" -> <<99, 97, 110, 99, 101, 108, 115>>
      [] s = "modifies" -> <<109, 111, 100, 105, 102, 105, 101, 115>>
      [] s = "asset" -> <<97, 115, 115, 101, 116>>
      [] s = "oid" -> <<111, 105, 100>>
      [] s = "cloid" -> <<99, 108, 111, 105, 100>>
      [] s = "order" -> <<111, 114, 100, 101, 114>>
      [] s = "is_buy" -> <<105, 115, 95, 98, 117, 121>>
      [] s = "reduce_only" -> <<114, 101, 100, 117, 99, 101, 95, 111, 110, 108, 121>>
      [] s = "is_cross" -> <<105, 115, 95, 99, 114, 111, 115, 115>>
      [] s = "leverage" -> <<108, 101, 118, 101, 114, 97, 103, 101>>
      [] s = "ntli" -> <<110, 116, 108, 105>>
      [] s = "class_transfer" -> <<99, 108, 97, 115, 115, 95, 116, 114, 97, 110, 115, 102, 101, 114>>
      [] s = "usdc" -> <<117, 115, 100, 99>>
      [] s = "to_perp" -> <<116, 111, 95, 112, 101, 114, 112>>
      [] s = "vault_address" -> <<118, 97, 117, 108, 116, 95, 97, 100, 100, 114, 101, 115, 115>>
      [] s = "is_deposit" -> <<105, 115, 95, 100, 101, 112, 111, 115, 105, 116>>
      [] s = "usd" -> <<117, 115, 100>>
      [] s = "code" -> <<99, 111, 100, 101>>
      [] s = "cancel" -> <<99, 97, 110, 99, 101, 108>>
      [] s = "cancelByCloid" -> <<99, 97, 110, 99, 101, 108, 66, 121, 67, 108, 111, 105, 100>>
      [] s = "batchModify" -> <<98, 97, 116, 99, 104, 77, 111, 100, 105, 102, 121>>
      [] s = "updateLeverage" -> <<117, 112, 100, 97, 116, 101, 76, 101, 118, 101, 114, 97, 103, 101>>
      [] s = "updateIsolatedMargin" -> <<117, 112, 100, 97, 116, 101, 73, 115, 111, 108, 97, 116, 101, 100, 77, 97, 114, 103, 105, 110>>
      [] s = "spotUser" -> <<115, 112, 111, 116, 85, 115, 101, 114>>
      [] s = "vaultTransfer" -> <<118, 97, 117, 108, 116, 84, 114, 97, 110, 115, 102, 101, 114>>
      [] s = "setReferrer" -> <<115, 101, 116, 82, 101, 102, 101, 114, 114, 101, 114>>
      [] s = "na" -> <<110, 97>>
      [] s = "10" -> <<49, 48>>
      [] s = "REF1" -> <<82, 69, 70, 49>>
      [] s = "0xab" -> <<48, 120, 97, 98>>
      [] s = "0xAB" -> <<48, 120, 65, 66>>

\* str::to_lowercase on the strings the model passes as builder addresses.
to_lowercase(s) == IF s = "0xAB" THEN "0xab" ELSE s

\* The k low-order bytes of n, most significant first.
\* The same field with the low byte first.
RECURSIVE to_le_bytes(_, _)
to_le_bytes(n, k) ==
    IF k = 0 THEN <<>> ELSE <<n % 256>> \o to_le_bytes(n \div 256, k - 1)

RECURSIVE to_be_bytes(_, _)
to_be_bytes(n, k) ==
    IF k = 0 THEN <<>> ELSE to_be_bytes(n \div 256, k - 1) \o <<n % 256>>

HexDigit(d) == IF d < 10 THEN 48 + d ELSE 87 + d
RECURSIVE HexChars(_, _)
\* The hex digits of the first k bytes.
HexChars(bytes, k) ==
    IF k = 0 THEN <<>>
    ELSE HexChars(bytes, k - 1)
            \o <<HexDigit(bytes[k] \div 16), HexDigit(bytes[k] % 16)>>

\* MessagePack, smallest unsigned form.
MpUint(n) ==
    IF n < 128 THEN <<n>>
    ELSE IF n < 256 THEN <<204, n>>
    ELSE IF n < 65536 THEN <<205>> \o to_be_bytes(n, 2)
    ELSE IF (n \div 65536) < 65536 THEN <<206>> \o to_be_bytes(n, 4)
    ELSE <<207>> \o to_be_bytes(n, 8)

MpStr(bytes) ==
    (IF Len(bytes) < 32 THEN <<160 + Len(bytes)>> ELSE <<217, Len(bytes)>>)
        \o bytes

RECURSIVE Msgpack(_)
RECURSIVE MpElems(_, _)
RECURSIVE MpEntries(_, _)
Msgpack(t) ==
    CASE t[1] = "uint" -> MpUint(t[2])
      [] t[1] = "bool" -> IF t[2] THEN <<195>> ELSE <<194>>
      [] t[1] = "str" -> MpStr(Utf8(t[2]))
      [] t[1] = "hexstr" -> MpStr(<<48, 120>> \o HexChars(t[2], Len(t[2])))
      [] t[1] = "array" -> <<144 + Len(t[2])>> \o MpElems(t[2], Len(t[2]))
      [] t[1] = "map" -> <<128 + Len(t[2])>> \o MpEntries(t[2], Len(t[2]))
\* The first k elements of an array, each encoded, in order.
MpElems(ts, k) ==
    IF k = 0 THEN <<>> ELSE MpElems(ts, k - 1) \o Msgpack(ts[k])
\* The first k entries of a map: key then value.
MpEntries(kvs, k) ==
    IF k = 0 THEN <<>>
    ELSE MpEntries(kvs, k - 1) \o MpStr(Utf8(kvs[k][1])) \o Msgpack(kvs[k][2])

(***************************************************************************)
(* The Actions enum: [variant, inner].  #[serde(tag = "type")] with        *)
(* rename_all = "camelCase" puts the variant name, camel-cased, under the  *)
(* key "type" in front of the fields of the wrapped struct.                *)
(***************************************************************************)
Actions(variant, inner) == [variant |-> variant, inner |-> inner]

Tag(variant) ==
    CASE variant = "UsdSend" -> "usdSend"
      [] variant = "UpdateLeverage" -> "updateLeverage"
      [] variant = "UpdateIsolatedMargin" -> "updateIsolatedMargin"
      [] variant = "Order" -> "order"
      [] variant = "Cancel" -> "cancel"
      [] variant = "CancelByCloid" -> "cancelByCloid"
      [] variant = "BatchModify" -> "batchModify"
      [] variant = "Withdraw3" -> "withdraw3"
      [] variant = "SpotUser" -> "spotUser"
      [] variant = "VaultTransfer" -> "vaultTransfer"
      [] variant = "SpotSend" -> "spotSend"
      [] variant = "SetReferrer" -> "setReferrer"
      [] variant = "ApproveBuilderFee" -> "approveBuilderFee"
      [] variant = "UsdClassTransfer" -> "usdClassTransfer"

SerOrderRequest(o) ==
    Obj(<< <<"asset", U(o.asset)>>, <<"is_buy", B(o.is_buy)>>,
           <<"reduce_only", B(o.reduce_only)>> >>)

\* The fields of the wrapped struct, in declaration order.
Fields(a) ==
    LET x == a.inner IN
    CASE a.variant = "Order" ->
            << <<"orders", Arr([i \in 1..Len(x.orders) |-> SerOrderRequest(x.orders[i])])>>,
               <<"grouping", S(x.grouping)>> >>
            \o (IF x.builder = None THEN <<>>
                ELSE << <<"builder", Obj(<< <<"builder", S(x.builder[1].builder)>> >>)>> >>)
      [] a.variant = "Cancel" ->
            << <<"cancels", Arr([i \in 1..Len(x.cancels) |->
                    Obj(<< <<"asset", U(x.cancels[i].asset)>>,
                           <<"oid", U(x.cancels[i].oid)>> >>)])>> >>
      [] a.variant = "CancelByCloid" ->
            << <<"cancels", Arr([i \in 1..Len(x.cancels) |->
                    Obj(<< <<"asset", U(x.cancels[i].asset)>>,
                           <<"cloid", x.cancels[i].cloid>> >>)])>> >>
      [] a.variant = "BatchModify" ->
            << <<"modifies", Arr([i \in 1..Len(x.modifies) |->
                    Obj(<< <<"oid", U(x.modifies[i].oid)>>,
                           <<"order", SerOrderRequest(x.modifies[i].order)>> >>)])>> >>
      [] a.variant = "UpdateLeverage" ->
            << <<"asset", U(x.asset)>>, <<"is_cross", B(x.is_cross)>>,
               <<"leverage", U(x.leverage)>> >>
      [] a.variant = "UpdateIsolatedMargin" ->
            << <<"asset", U(x.asset)>>, <<"is_buy", B(x.is_buy)>>,
               <<"ntli", U(x.ntli)>> >>
      [] a.variant = "SpotUser" ->
            << <<"class_transfer",
                 Obj(<< <<"usdc", U(x.class_transfer.usdc)>>,
                        <<"to_perp", B(x.class_transfer.to_perp)>> >>)>> >>
      [] a.variant = "VaultTransfer" ->
            << <<"vault_address", HexStr(x.vault_address)>>,
               <<"is_deposit", B(x.is_deposit)>>, <<"usd", S(x.usd)>> >>
      [] a.variant = "SetReferrer" -> << <<"code", S(x.code)>> >>
      [] a.variant \in {"UsdSend", "Withdraw3"} ->
            << <<"signature_chain_id", U256(x.signature_chain_id)>>,
               <<"hyperliquid_chain", S(x.hyperliquid_chain)>>,
               <<"destination", S(x.destination)>>,
               <<"amount", S(x.amount)>>, <<"time", U(x.time)>> >>
      [] a.variant = "SpotSend" ->
            << <<"signature_chain_id", U256(x.signature_chain_id)>>,
               <<"hyperliquid_chain", S(x.hyperliquid_chain)>>,
               <<"destination", S(x.destination)>>,
               <<"amount", S(x.amount)>>, <<"time", U(x.time)>>,
               <<"token", S(x.token)>> >>
      [] a.variant = "ApproveBuilderFee" ->
            << <<"signature_chain_id", U256(x.signature_chain_id)>>,
               <<"hyperliquid_chain", S(x.hyperliquid_chain)>>,
               <<"builder", HexStr(x.builder)>>,
               <<"max_fee_rate", S(x.max_fee_rate)>>, <<"nonce", U(x.nonce)>> >>
      [] a.variant = "UsdClassTransfer" ->
            << <<"hyperliquid_chain", S(x.hyperliquid_chain)>>,
               <<"signature_chain_id", U256(x.signature_chain_id)>>,
               <<"amount", S(x.amount)>>, <<"to_perp", B(x.to_perp)>>,
               <<"nonce", U(x.nonce)>> >>

Serialize(a) == Obj(<< <<"type", S(Tag(a.variant))>> >> \o Fields(a))

\* rmp_serde::to_vec_named(self).map_err(|e| Error::RmpParse(..))
to_vec_named(a, env) ==
    IF env.fault = "rmp" THEN Err("RmpParse") ELSE Ok(Msgpack(Serialize(a)))

\* serde_json::to_value(&action).map_err(|e| Error::JsonParse(..))
to_value(a, env) ==
    IF env.fault = "json" THEN Err("JsonParse") ELSE Ok(Serialize(a))

(***************************************************************************)
(* Hashing and signing.  keccak256 and the EIP-712 digest are collision-   *)
(* free constructors over what they hash.                                  *)
(***************************************************************************)
keccak256(bytes) == <<"keccak256", bytes>>
encode_eip712(payload) == <<"eip712", payload>>

\* A preimage that marks the vault's presence but leaves its bytes out.
Actions_hash_flag_only(action, timestamp, vault_address, env) ==
    LET enc == to_vec_named(action, env) IN
    IF ~IsOk(enc) THEN enc
    ELSE Ok(keccak256(
            enc[2] \o to_be_bytes(timestamp, NonceBytes)
                \o (IF IsSome(vault_address) THEN <<1>> ELSE <<0>>)))

\* Actions::hash
Actions_hash(action, timestamp, vault_address, env) ==
    LET enc == to_vec_named(action, env) IN
    IF ~IsOk(enc) THEN enc
    ELSE Ok(keccak256(
            enc[2] \o to_be_bytes(timestamp, NonceBytes)
                \o (IF IsSome(vault_address)
                    THEN <<1>> \o vault_address[1]
                    ELSE <<0>>)))

\* sign_hash: signer.sign_hash(..).await.unwrap()
sign_hash(hash, signer, env) ==
    IF env.fault = "sign" THEN Panic("sign_hash: unwrap on Err")
    ELSE Ok([signer |-> signer, msg |-> hash, recid |-> env.recid])

\* sign_typed_data
sign_typed_data(payload, signer, env) ==
    IF env.fault = "eip712" THEN Err("Eip712")
    ELSE sign_hash(encode_eip712(payload), signer, env)

\* An L1 signature made over the connection id itself, with no Agent struct.
sign_l1_action_bare(wallet, connection_id, mainnet, env) ==
    sign_hash(connection_id, wallet, env)

\* An L1 signature whose Agent struct always carries the mainnet marker.
sign_l1_action_source_a(wallet, connection_id, mainnet, env) ==
    sign_typed_data(
        [struct |-> "Agent", source |-> "a", connection_id |-> connection_id],
        wallet, env)

\* sign_l1_action
sign_l1_action(wallet, connection_id, mainnet, env) ==
    sign_typed_data(
        [struct |-> "Agent",
         source |-> IF mainnet THEN "a" ELSE "b",
         connection_id |-> connection_id],
        wallet, env)

(***************************************************************************)
(* The running call: the steps performed so far, in order, and the value   *)
(* returned (<<>> while the function is still running).  A step whose      *)
(* outcome is not Ok ends the function: an Err is returned by `?`, a Panic *)
(* unwinds.                                                                *)
(***************************************************************************)
NewCall(op, args) == [op |-> op, args |-> args, trace |-> <<>>, result |-> <<>>]
Done(c) == c.result # <<>>

Step(c, name, input, r) ==
    IF Done(c) THEN c
    ELSE [c EXCEPT !.trace = Append(@, <<name, input, r>>),
                   !.result = IF IsOk(r) THEN <<>> ELSE r]

\* A step whose outcome the function holds in hand without `?`.
Note(c, name, input, r) ==
    IF Done(c) THEN c
    ELSE [c EXCEPT !.trace = Append(@, <<name, input, r>>)]

Finish(c, r) == IF Done(c) THEN c ELSE [c EXCEPT !.result = r]

\* The steps of a call that carry the given name.
StepsOf(c, name) == SelectSeq(c.trace, LAMBDA e : e[1] = name)
\* The outcome value of the only step of that name.
OutOf(c, name) == StepsOf(c, name)[1][3][2]

(***************************************************************************)
(* The HTTP collaborator and the response decoder.                         *)
(***************************************************************************)
OkBody == "{\"status\":\"ok\"}"
ErrBody == "{\"status\":\"err\"}"
GarbageBody == "<html>"

\* HttpClient::post: the body the server sent, or a transport error.
http_post(url_path, data, env) ==
    IF env.fault = "transport" THEN Err("GenericRequest")
    ELSE Ok(CASE env.response = "ok" -> OkBody
              [] env.response = "err" -> ErrBody
              [] OTHER -> GarbageBody)

\* Result::unwrap
unwrap(r) == IF IsOk(r) THEN r ELSE Panic("unwrap on Err")

\* serde_json::from_str::<ExchangeResponseStatus>
from_str(output) ==
    CASE output = OkBody -> Ok("ExchangeResponseStatus::Ok")
      [] output = ErrBody -> Ok("ExchangeResponseStatus::Err")
      [] OTHER -> Err("JsonParse")

\* serde_json::to_string(&exchange_payload): camelCase keys, vaultAddress
\* skipped when None.
to_string(p, env) ==
    IF env.fault = "to_string" THEN Err("JsonParse")
    ELSE Ok(IF IsSome(p.vault_address)
            THEN [action |-> p.action, signature |-> p.signature,
                  nonce |-> p.nonce, vaultAddress |-> p.vault_address[1]]
            ELSE [action |-> p.action, signature |-> p.signature,
                  nonce |-> p.nonce])

\* An envelope stamped with a nonce of its own, not the signed one.
ExchangePayload_own_nonce(self, action, signature, nonce) ==
    [action |-> action,
     signature |-> [r |-> <<"r", signature.signer, signature.msg>>,
                    s |-> <<"s", signature.signer, signature.msg>>,
                    v |-> signature.recid + RecoveryOffset],
     nonce |-> nonce + 1,
     vault_address |-> self.vault_address]

\* An envelope that never names the vault.
ExchangePayload_no_vault(self, action, signature, nonce) ==
    [action |-> action,
     signature |-> [r |-> <<"r", signature.signer, signature.msg>>,
                    s |-> <<"s", signature.signer, signature.msg>>,
                    v |-> signature.recid + RecoveryOffset],
     nonce |-> nonce,
     vault_address |-> None]

\* The ExchangePayload that post assembles.
ExchangePayload(self, action, signature, nonce) ==
    [action |-> action,
     signature |-> [r |-> <<"r", signature.signer, signature.msg>>,
                    s |-> <<"s", signature.signer, signature.msg>>,
                    v |-> signature.recid + RecoveryOffset],
     nonce |-> nonce,
     vault_address |-> self.vault_address]

\* A post that sends the same body once more when the transport fails.
post_again(self, c, action, signature, nonce, env) ==
    LET exchange_payload == ExchangePayload(self, action, signature, nonce)
        res == to_string(exchange_payload, env)
        c1 == Step(c, "to_string", exchange_payload, res)
        first == http_post("/exchange", res[2], env)
        c2 == Note(c1, "http_post", res[2], first)
        sent == IF IsOk(first) THEN first ELSE http_post("/exchange", res[2], env)
        c2b == IF IsOk(first) THEN c2 ELSE Note(c2, "http_post", res[2], sent)
        c3 == Step(c2b, "unwrap", sent, unwrap(sent))
        decoded == from_str(OutOf(c3, "unwrap"))
        c4 == Note(c3, "from_str", OutOf(c3, "unwrap"), decoded)
    IN  Finish(c4, decoded)

\* ExchangeClient::post
post(self, c, action, signature, nonce, env) ==
    LET exchange_payload == ExchangePayload(self, action, signature, nonce)
        res == to_string(exchange_payload, env)
        c1 == Step(c, "to_string", exchange_payload, res)
        sent == http_post("/exchange", res[2], env)
        c2 == Note(c1, "http_post", res[2], sent)
        c3 == Step(c2, "unwrap", sent, unwrap(sent))
        decoded == from_str(OutOf(c3, "unwrap"))
        c4 == Note(c3, "from_str", OutOf(c3, "unwrap"), decoded)
    IN  Finish(c4, decoded)

(***************************************************************************)
(* Prices and sizes.  An f64 is modelled as the decimal number m * 10^e    *)
(* it is written as, kept without trailing zeros in m, or as NaN; the      *)
(* arithmetic is exact.                                                    *)
(***************************************************************************)
NaN == [m |-> 0, e |-> 0, nan |-> TRUE]

RECURSIVE Dec(_, _)
Dec(m, e) ==
    IF m = 0 THEN [m |-> 0, e |-> 0, nan |-> FALSE]
    ELSE IF m % 10 = 0 THEN Dec(m \div 10, e + 1)
    ELSE [m |-> m, e |-> e, nan |-> FALSE]

Abs(n) == IF n < 0 THEN -n ELSE n

\* The number of decimal digits of n > 0.
RECURSIVE Digits(_)
Digits(n) == IF n < 10 THEN 1 ELSE 1 + Digits(n \div 10)

\* f64::round of m / 10^k: to the nearest integer, halves away from zero.
f64_round(m, k) ==
    IF m >= 0 THEN (m + (10 ^ k) \div 2) \div (10 ^ k)
    ELSE -((-m + (10 ^ k) \div 2) \div (10 ^ k))

\* a * b and a + b
f64_mul(a, b) == IF a.nan \/ b.nan THEN NaN ELSE Dec(a.m * b.m, a.e + b.e)
f64_add(a, b) ==
    IF a.nan \/ b.nan THEN NaN
    ELSE IF a.e <= b.e THEN Dec(a.m + b.m * 10 ^ (b.e - a.e), a.e)
    ELSE Dec(a.m * 10 ^ (a.e - b.e) + b.m, b.e)
f64_neg(a) == IF a.nan THEN NaN ELSE Dec(-a.m, a.e)

\* round_to_decimals: (value * 10^decimals).round() / 10^decimals
round_to_decimals(value, decimals) ==
    IF value.nan THEN NaN
    ELSE IF value.e >= -decimals THEN value
    ELSE Dec(f64_round(value.m, -decimals - value.e), -decimals)

\* round_to_significant_and_decimal.  At value 0, log10 is -inf and
\* `floor() as i32` is i32::MIN, so `sig_figs as i32 - magnitude - 1`
\* overflows: a build with overflow checks panics there, a build without
\* them wraps, the scale is 10^(a large negative) = 0 and 0 / 0 is NaN.
round_to_significant_and_decimal(value, sig_figs, max_decimals, build) ==
    IF value.nan THEN Ok(NaN)
    ELSE IF value.m = 0
    THEN IF build = "debug"
         THEN Panic("attempt to subtract with overflow")
         ELSE Ok(NaN)
    ELSE LET magnitude == Digits(Abs(value.m)) + value.e - 1
             unit == magnitude + 1 - sig_figs
             rounded == IF value.e >= unit THEN value
                        ELSE Dec(f64_round(value.m, unit - value.e), unit)
         IN  Ok(round_to_decimals(rounded, max_decimals))

(***************************************************************************)
(* Symbol resolution.                                                      *)
(***************************************************************************)
\* A lookup that falls back to asset 0 for a symbol it does not hold.
get_asset_or_zero(coin_to_asset, coin) ==
    IF coin \in DOMAIN coin_to_asset THEN Ok(coin_to_asset[coin]) ELSE Ok(0)

\* self.coin_to_asset.get(coin).ok_or(Error::AssetNotFound)
get_asset(coin_to_asset, coin) ==
    IF coin \in DOMAIN coin_to_asset
    THEN Ok(coin_to_asset[coin])
    ELSE Err("AssetNotFound")

\* ClientOrderRequest::convert: the request with its symbol replaced by the
\* asset index; an unknown symbol is an error.
convert(order, coin_to_asset) ==
    IF order.asset \in DOMAIN coin_to_asset
    THEN Ok([asset |-> coin_to_asset[order.asset], is_buy |-> order.is_buy,
             reduce_only |-> order.reduce_only])
    ELSE Err("AssetNotFound")

\* uuid_to_hex_string: "0x" followed by the hex digits of the 16 bytes.
uuid_to_hex_string(uuid) == HexStr(uuid)

\* for cancel in cancels { coin_to_asset.get(&cancel.asset).ok_or(..)?; push }
RECURSIVE resolve_each(_, _, _, _)
resolve_each(self, c, reqs, i) ==
    IF i > Len(reqs) THEN c
    ELSE resolve_each(self,
            Step(c, "resolve", reqs[i].asset,
                 get_asset(self.coin_to_asset, reqs[i].asset)),
            reqs, i + 1)

\* for order in orders { transformed.push(order.convert(&coin_to_asset)?) }
RECURSIVE convert_each(_, _, _, _)
convert_each(self, c, orders, i) ==
    IF i > Len(orders) THEN c
    ELSE convert_each(self,
            Step(c, "resolve", orders[i].asset,
                 convert(orders[i], self.coin_to_asset)),
            orders, i + 1)

\* The pushed vector, last request first.
Pushed_reversed(c) ==
    [i \in 1..Len(StepsOf(c, "resolve")) |->
        StepsOf(c, "resolve")[Len(StepsOf(c, "resolve")) + 1 - i][3][2]]

\* The vector the loop has pushed: the outcomes of its steps, in step order.
Pushed(c) == [i \in 1..Len(StepsOf(c, "resolve")) |-> StepsOf(c, "resolve")[i][3][2]]

\* `let timestamp = next_nonce();`
acquire(c, cur, env) ==
    Step(c, "next_nonce", cur, Ok(next_nonce(cur, env.now)))

\* A chain name that does not look at the network.
Chain_mainnet(http_client) == "Mainnet"

Chain(http_client) == IF is_mainnet(http_client) THEN "Mainnet" ELSE "Testnet"

(***************************************************************************)
(* The closing statements of the two signing paths, as every operation     *)
(* writes them out.                                                        *)
(***************************************************************************)
\* connection_id = action.hash(timestamp, self.vault_address)?;
\* action = to_value(&action)?; signature = sign_l1_action(..)?; self.post(..)
l1_tail(self, c, action, timestamp, wallet, env) ==
    LET c1 == Step(c, "hash", [action |-> action, timestamp |-> timestamp,
                               vault_address |-> self.vault_address],
                   Actions_hash(action, timestamp, self.vault_address, env))
        connection_id == OutOf(c1, "hash")
        c2 == Step(c1, "to_value", action, to_value(action, env))
        c3 == Step(c2, "sign_l1_action",
                   [wallet |-> wallet, connection_id |-> connection_id,
                    is_mainnet |-> is_mainnet(self.http_client)],
                   sign_l1_action(wallet, connection_id,
                                  is_mainnet(self.http_client), env))
    IN  IF Done(c3) THEN c3
        ELSE post(self, c3, OutOf(c3, "to_value"), OutOf(c3, "sign_l1_action"),
                  timestamp, env)

\* signature = sign_typed_data(&payload, wallet)?;
\* action = to_value(Actions::X(payload))?; self.post(..)
typed_tail(self, c, variant, payload, timestamp, wallet, env) ==
    LET c1 == Step(c, "sign_typed_data", [payload |-> payload, wallet |-> wallet],
                   sign_typed_data(payload, wallet, env))
        action == Actions(variant, payload)
        c2 == Step(c1, "to_value", action, to_value(action, env))
    IN  IF Done(c2) THEN c2
        ELSE post(self, c2, OutOf(c2, "to_value"), OutOf(c2, "sign_typed_data"),
                  timestamp, env)

\* The nonce a call holds in `timestamp`.
Timestamp(c) == OutOf(c, "next_nonce")

(***************************************************************************)
(* The mutating operations of ExchangeClient.  Each takes the caller's     *)
(* arguments and env, the outcomes of what lies outside the function (the  *)
(* clock reading, the step that fails if any, the recovery id, the         *)
(* server's answer), and yields the finished call.                         *)
(***************************************************************************)
usdc_transfer(self, cur, amount, destination, wallet_opt, env) ==
    LET wallet == unwrap_or(wallet_opt, self.wallet)
        hyperliquid_chain == Chain(self.http_client)
        c1 == acquire(NewCall("usdc_transfer",
                    [amount |-> amount, destination |-> destination,
                     wallet |-> wallet_opt]), cur, env)
        timestamp == Timestamp(c1)
        usd_send == [struct |-> "UsdSend",
                     signature_chain_id |-> ChainIdArbSepolia,
                     hyperliquid_chain |-> hyperliquid_chain,
                     destination |-> destination,
                     amount |-> amount,
                     time |-> timestamp]
    IN  typed_tail(self, c1, "UsdSend", usd_send, timestamp, wallet, env)

class_transfer(self, cur, usdc, to_perp, wallet_opt, env) ==
    LET micro == usdc * 1000000
        wallet == unwrap_or(wallet_opt, self.wallet)
        c1 == acquire(NewCall("class_transfer",
                    [usdc |-> usdc, to_perp |-> to_perp, wallet |-> wallet_opt]), cur, env)
        timestamp == Timestamp(c1)
        action == Actions("SpotUser",
                    [class_transfer |-> [usdc |-> micro, to_perp |-> to_perp]])
    IN  l1_tail(self, c1, action, timestamp, wallet, env)

transfer_usd_to_spot(self, cur, usdc, wallet_opt, env) ==
    LET wallet == unwrap_or(wallet_opt, self.wallet)
        c1 == acquire(NewCall("transfer_usd_to_spot",
                    [usdc |-> usdc, wallet |-> wallet_opt]), cur, env)
        timestamp == Timestamp(c1)
        usd_send == [struct |-> "UsdClassTransfer",
                     hyperliquid_chain |-> Chain(self.http_client),
                     signature_chain_id |-> ChainIdArbitrum,
                     amount |-> usdc,
                     to_perp |-> FALSE,
                     nonce |-> timestamp]
    IN  typed_tail(self, c1, "UsdClassTransfer", usd_send, timestamp, wallet, env)

approve_builder_fee(self, cur, builder, max_fee_rate, wallet_opt, env) ==
    LET wallet == unwrap_or(wallet_opt, self.wallet)
        c1 == acquire(NewCall("approve_builder_fee",
                    [builder |-> builder, max_fee_rate |-> max_fee_rate,
                     wallet |-> wallet_opt]), cur, env)
        timestamp == Timestamp(c1)
        hyperliquid_chain == Chain(self.http_client)
        payload == [struct |-> "ApproveBuilderFee",
                    signature_chain_id |-> ChainIdArbSepolia,
                    hyperliquid_chain |-> hyperliquid_chain,
                    builder |-> builder,
                    max_fee_rate |-> max_fee_rate,
                    nonce |-> timestamp]
    IN  typed_tail(self, c1, "ApproveBuilderFee", payload, timestamp, wallet, env)

\* A vault_transfer that draws its nonce before it looks for the vault.
vault_transfer_nonce_first(self, cur, is_deposit, usd, vault_address_opt, wallet_opt, env) ==
    LET c0 == acquire(NewCall("vault_transfer",
                    [is_deposit |-> is_deposit, usd |-> usd,
                     vault_address |-> vault_address_opt, wallet |-> wallet_opt]),
                      cur, env)
        found == or(self.vault_address, vault_address_opt)
        c1 == Step(c0, "vault_address", vault_address_opt,
                   IF IsSome(found) THEN Ok(found[1])
                   ELSE Err("VaultAddressNotFound"))
        wallet == unwrap_or(wallet_opt, self.wallet)
        timestamp == Timestamp(c0)
        action == Actions("VaultTransfer",
                    [vault_address |-> OutOf(c1, "vault_address"),
                     is_deposit |-> is_deposit, usd |-> usd])
    IN  IF Done(c1) THEN c1 ELSE l1_tail(self, c1, action, timestamp, wallet, env)

\* ExchangeClient::vault_transfer
vault_transfer(self, cur, is_deposit, usd, vault_address_opt, wallet_opt, env) ==
    LET c0 == NewCall("vault_transfer",
                    [is_deposit |-> is_deposit, usd |-> usd,
                     vault_address |-> vault_address_opt, wallet |-> wallet_opt])
        found == or(self.vault_address, vault_address_opt)
        c1 == Step(c0, "vault_address", vault_address_opt,
                   IF IsSome(found) THEN Ok(found[1])
                   ELSE Err("VaultAddressNotFound"))
        wallet == unwrap_or(wallet_opt, self.wallet)
        c2 == IF Done(c1) THEN c1 ELSE acquire(c1, cur, env)
        timestamp == Timestamp(c2)
        action == Actions("VaultTransfer",
                    [vault_address |-> OutOf(c1, "vault_address"),
                     is_deposit |-> is_deposit, usd |-> usd])
    IN  IF Done(c2) THEN c2 ELSE l1_tail(self, c2, action, timestamp, wallet, env)

bulk_order(self, cur, orders, wallet_opt, env) ==
    LET wallet == unwrap_or(wallet_opt, self.wallet)
        c1 == acquire(NewCall("bulk_order",
                    [orders |-> orders, wallet |-> wallet_opt]), cur, env)
        timestamp == Timestamp(c1)
        c2 == convert_each(self, c1, orders, 1)
        action == Actions("Order",
                    [orders |-> Pushed(c2), grouping |-> "na", builder |-> None])
    IN  IF Done(c2) THEN c2 ELSE l1_tail(self, c2, action, timestamp, wallet, env)

bulk_order_with_builder(self, cur, orders, wallet_opt, builder, env) ==
    LET wallet == unwrap_or(wallet_opt, self.wallet)
        c1 == acquire(NewCall("bulk_order_with_builder",
                    [orders |-> orders, wallet |-> wallet_opt,
                     builder |-> builder]), cur, env)
        timestamp == Timestamp(c1)
        lowered == [builder EXCEPT !.builder = to_lowercase(@)]
        c2 == convert_each(self, c1, orders, 1)
        action == Actions("Order",
                    [orders |-> Pushed(c2), grouping |-> "na",
                     builder |-> Some(lowered)])
    IN  IF Done(c2) THEN c2 ELSE l1_tail(self, c2, action, timestamp, wallet, env)

order(self, cur, request, wallet_opt, env) ==
    [bulk_order(self, cur, <<request>>, wallet_opt, env) EXCEPT
        !.op = "order", !.args = [order |-> request, wallet |-> wallet_opt]]

order_with_builder(self, cur, request, wallet_opt, builder, env) ==
    [bulk_order_with_builder(self, cur, <<request>>, wallet_opt, builder, env) EXCEPT
        !.op = "order_with_builder",
        !.args = [order |-> request, wallet |-> wallet_opt, builder |-> builder]]

bulk_cancel(self, cur, cancels, wallet_opt, env) ==
    LET wallet == unwrap_or(wallet_opt, self.wallet)
        c1 == acquire(NewCall("bulk_cancel",
                    [cancels |-> cancels, wallet |-> wallet_opt]), cur, env)
        timestamp == Timestamp(c1)
        c2 == resolve_each(self, c1, cancels, 1)
        transformed_cancels ==
            [i \in 1..Len(cancels) |->
                [asset |-> Pushed(c2)[i], oid |-> cancels[i].oid]]
        action == Actions("Cancel", [cancels |-> transformed_cancels])
    IN  IF Done(c2) THEN c2 ELSE l1_tail(self, c2, action, timestamp, wallet, env)

cancel(self, cur, request, wallet_opt, env) ==
    [bulk_cancel(self, cur, <<request>>, wallet_opt, env) EXCEPT
        !.op = "cancel", !.args = [cancel |-> request, wallet |-> wallet_opt]]

bulk_modify(self, cur, modifies, wallet_opt, env) ==
    LET wallet == unwrap_or(wallet_opt, self.wallet)
        c1 == acquire(NewCall("bulk_modify",
                    [modifies |-> modifies, wallet |-> wallet_opt]), cur, env)
        timestamp == Timestamp(c1)
        c2 == convert_each(self, c1, [i \in 1..Len(modifies) |-> modifies[i].order], 1)
        transformed_modifies ==
            [i \in 1..Len(modifies) |->
                [oid |-> modifies[i].oid, order |-> Pushed(c2)[i]]]
        action == Actions("BatchModify", [modifies |-> transformed_modifies])
    IN  IF Done(c2) THEN c2 ELSE l1_tail(self, c2, action, timestamp, wallet, env)

modify(self, cur, request, wallet_opt, env) ==
    [bulk_modify(self, cur, <<request>>, wallet_opt, env) EXCEPT
        !.op = "modify", !.args = [modify |-> request, wallet |-> wallet_opt]]

bulk_cancel_by_cloid(self, cur, cancels, wallet_opt, env) ==
    LET wallet == unwrap_or(wallet_opt, self.wallet)
        c1 == acquire(NewCall("bulk_cancel_by_cloid",
                    [cancels |-> cancels, wallet |-> wallet_opt]), cur, env)
        timestamp == Timestamp(c1)
        c2 == resolve_each(self, c1, cancels, 1)
        transformed_cancels ==
            [i \in 1..Len(cancels) |->
                [asset |-> Pushed(c2)[i],
                 cloid |-> uuid_to_hex_string(cancels[i].cloid)]]
        action == Actions("CancelByCloid", [cancels |-> transformed_cancels])
    IN  IF Done(c2) THEN c2 ELSE l1_tail(self, c2, action, timestamp, wallet, env)

cancel_by_cloid(self, cur, request, wallet_opt, env) ==
    [bulk_cancel_by_cloid(self, cur, <<request>>, wallet_opt, env) EXCEPT
        !.op = "cancel_by_cloid",
        !.args = [cancel |-> request, wallet |-> wallet_opt]]

\* update_leverage with the symbol looked up before the nonce is drawn.
update_leverage_lookup_first(self, cur, leverage, coin, is_cross, wallet_opt, env) ==
    LET wallet == unwrap_or(wallet_opt, self.wallet)
        c1 == Step(NewCall("update_leverage",
                    [leverage |-> leverage, coin |-> coin, is_cross |-> is_cross,
                     wallet |-> wallet_opt]),
                   "resolve", coin, get_asset(self.coin_to_asset, coin))
        c2 == IF Done(c1) THEN c1 ELSE acquire(c1, cur, env)
        timestamp == Timestamp(c2)
        action == Actions("UpdateLeverage",
                    [asset |-> Pushed(c1)[1], is_cross |-> is_cross,
                     leverage |-> leverage])
    IN  IF Done(c2) THEN c2 ELSE l1_tail(self, c2, action, timestamp, wallet, env)

update_leverage(self, cur, leverage, coin, is_cross, wallet_opt, env) ==
    LET wallet == unwrap_or(wallet_opt, self.wallet)
        c1 == acquire(NewCall("update_leverage",
                    [leverage |-> leverage, coin |-> coin, is_cross |-> is_cross,
                     wallet |-> wallet_opt]), cur, env)
        timestamp == Timestamp(c1)
        c2 == Step(c1, "resolve", coin, get_asset(self.coin_to_asset, coin))
        action == Actions("UpdateLeverage",
                    [asset |-> Pushed(c2)[1], is_cross |-> is_cross,
                     leverage |-> leverage])
    IN  IF Done(c2) THEN c2 ELSE l1_tail(self, c2, action, timestamp, wallet, env)

update_isolated_margin(self, cur, amount, coin, wallet_opt, env) ==
    LET wallet == unwrap_or(wallet_opt, self.wallet)
        micro == amount * 1000000
        c1 == acquire(NewCall("update_isolated_margin",
                    [amount |-> amount, coin |-> coin, wallet |-> wallet_opt]), cur, env)
        timestamp == Timestamp(c1)
        c2 == Step(c1, "resolve", coin, get_asset(self.coin_to_asset, coin))
        action == Actions("UpdateIsolatedMargin",
                    [asset |-> Pushed(c2)[1], is_buy |-> TRUE, ntli |-> micro])
    IN  IF Done(c2) THEN c2 ELSE l1_tail(self, c2, action, timestamp, wallet, env)

withdraw_from_bridge(self, cur, amount, destination, wallet_opt, env) ==
    LET wallet == unwrap_or(wallet_opt, self.wallet)
        hyperliquid_chain == Chain(self.http_client)
        c1 == acquire(NewCall("withdraw_from_bridge",
                    [amount |-> amount, destination |-> destination,
                     wallet |-> wallet_opt]), cur, env)
        timestamp == Timestamp(c1)
        withdraw == [struct |-> "Withdraw3",
                     signature_chain_id |-> ChainIdArbSepolia,
                     hyperliquid_chain |-> hyperliquid_chain,
                     destination |-> destination,
                     amount |-> amount,
                     time |-> timestamp]
    IN  typed_tail(self, c1, "Withdraw3", withdraw, timestamp, wallet, env)

spot_transfer(self, cur, amount, destination, token, wallet_opt, env) ==
    LET wallet == unwrap_or(wallet_opt, self.wallet)
        hyperliquid_chain == Chain(self.http_client)
        c1 == acquire(NewCall("spot_transfer",
                    [amount |-> amount, destination |-> destination,
                     token |-> token, wallet |-> wallet_opt]), cur, env)
        timestamp == Timestamp(c1)
        spot_send == [struct |-> "SpotSend",
                      signature_chain_id |-> ChainIdArbSepolia,
                      hyperliquid_chain |-> hyperliquid_chain,
                      destination |-> destination,
                      amount |-> amount,
                      time |-> timestamp,
                      token |-> token]
    IN  typed_tail(self, c1, "SpotSend", spot_send, timestamp, wallet, env)

set_referrer(self, cur, code, wallet_opt, env) ==
    LET wallet == unwrap_or(wallet_opt, self.wallet)
        c1 == acquire(NewCall("set_referrer",
                    [code |-> code, wallet |-> wallet_opt]), cur, env)
        timestamp == Timestamp(c1)
        action == Actions("SetReferrer", [code |-> code])
    IN  l1_tail(self, c1, action, timestamp, wallet, env)

(***************************************************************************)
(* The market-style operations.  info holds what the metadata service      *)
(* answers during the call: the universe (name, sz_decimals), the mids,    *)
(* the user's positions, the request that fails if any; build is the kind  *)
(* of build that runs.                                                     *)
(***************************************************************************)
\* `match self.http_client.base_url.as_str()`
match_base_url(self) ==
    IF self.http_client.base_url \in {MainnetUrl, TestnetUrl}
    THEN Ok(self.http_client.base_url)
    ELSE Err("GenericRequest")

\* InfoClient::meta, all_mids, user_state: one request each.
info_request(what, info) ==
    IF info.fault = what THEN Err("GenericRequest")
    ELSE Ok(CASE what = "meta" -> info.universe
              [] what = "all_mids" -> info.mids
              [] OTHER -> info.positions)

\* `.iter().find(|a| a.name == asset).ok_or(Error::AssetNotFound)`
find_named(list, asset) ==
    IF \E i \in 1..Len(list) : list[i].name = asset
    THEN Ok(list[CHOOSE i \in 1..Len(list) :
                    /\ list[i].name = asset
                    /\ \A j \in 1..(i - 1) : list[j].name # asset])
    ELSE Err("AssetNotFound")

\* A lookup that answers 0 for a missing key.
index_or_zero(coin_to_asset, asset) ==
    IF asset \in DOMAIN coin_to_asset THEN Ok(coin_to_asset[asset]) ELSE Ok(0)

\* `self.coin_to_asset[asset]`: Index on a HashMap panics on a missing key.
index(coin_to_asset, asset) ==
    IF asset \in DOMAIN coin_to_asset THEN Ok(coin_to_asset[asset])
    ELSE Panic("HashMap index: key not found")

\* `all_mids.get(asset).ok_or(Error::AssetNotFound)`
get_mid(mids, asset) ==
    IF asset \in DOMAIN mids THEN Ok(mids[asset]) ELSE Err("AssetNotFound")

\* `.parse::<f64>().map_err(|_| Error::FloatStringParse)`
parse_f64(s) == IF s.numeric THEN Ok(s.value) ELSE Err("FloatStringParse")

\* u32::saturating_sub
saturating_sub(a, b) == IF a > b THEN a - b ELSE 0

\* A factor that lowers the price of a buy and raises the price of a sell.
slippage_factor_flipped(is_buy, slippage) ==
    IF is_buy THEN f64_add(Dec(1, 0), f64_neg(slippage))
    ELSE f64_add(Dec(1, 0), slippage)

\* `1.0 + slippage` for a buy, `1.0 - slippage` for a sell
slippage_factor(is_buy, slippage) ==
    IF is_buy THEN f64_add(Dec(1, 0), slippage)
    ELSE f64_add(Dec(1, 0), f64_neg(slippage))

\* The slippage a call uses when the caller names none: 0.05.
DefaultSlippage == Dec(5, -2)

\* The call c continued by the steps and the result of the call inner.
Then(c, inner) ==
    IF Done(c) THEN c
    ELSE [c EXCEPT !.trace = @ \o inner.trace, !.result = inner.result]

\* The only element of a one-element set: `The({F(x) : x \in {e}})` is F(e)
\* with e evaluated once.
The(one) == CHOOSE x \in one : TRUE

\* calculate_slippage_price, first part: the metadata request, the lookup of
\* the asset in the answer, the index of the asset in coin_to_asset.
lookup_asset(self, c, asset, info) ==
    LET c1 == Step(c, "base_url", self.http_client.base_url, match_base_url(self))
        c2 == Step(c1, "info_meta", "meta", info_request("meta", info))
        c3 == Step(c2, "find_asset", asset, find_named(OutOf(c2, "info_meta"), asset))
    IN  Step(c3, "index", asset, index(self.coin_to_asset, asset))

\* calculate_slippage_price, second part: the reference price, the caller's
\* px or else the mid of the asset.
reference_price(c, asset, px, info) ==
    IF IsSome(px) THEN Note(c, "reference", asset, Ok(px[1]))
    ELSE LET c5 == Step(c, "info_all_mids", "allMids", info_request("all_mids", info))
             c6 == Step(c5, "mid", asset, get_mid(OutOf(c5, "info_all_mids"), asset))
             c7 == Step(c6, "parse", OutOf(c6, "mid"), parse_f64(OutOf(c6, "mid")))
         IN  Note(c7, "reference", asset, Ok(OutOf(c7, "parse")))

\* calculate_slippage_price, last part: the slippage and the rounding.  Its
\* value (px, sz_decimals) is the outcome of its last step.
slippage_price(c, asset, is_buy, slippage, build) ==
    LET sz_decimals == OutOf(c, "find_asset").sz_decimals
        max_decimals == IF OutOf(c, "index") < SpotIndexBase
                        THEN PerpMaxDecimals ELSE SpotMaxDecimals
        price_decimals == saturating_sub(max_decimals, sz_decimals)
        reference == OutOf(c, "reference")
        scaled == f64_mul(reference, slippage_factor(is_buy, slippage))
    IN  The({Step(c8, "calculate_slippage_price", asset,
                  Ok([px |-> OutOf(c8, "round_price"), sz_decimals |-> sz_decimals])) :
                c8 \in {Step(c, "round_price",
                             [reference |-> reference, is_buy |-> is_buy,
                              slippage |-> slippage, px |-> scaled,
                              index |-> OutOf(c, "index"),
                              sz_decimals |-> sz_decimals,
                              max_decimals |-> price_decimals],
                             round_to_significant_and_decimal(scaled, SigFigs,
                                                    price_decimals, build))}})

calculate_slippage_price(self, c, asset, is_buy, slippage, px, info, build) ==
    The({IF Done(c7) THEN c7
         ELSE slippage_price(c7, asset, is_buy, slippage, build) :
            c7 \in {The({IF Done(c4) THEN c4
                         ELSE reference_price(c4, asset, px, info) :
                            c4 \in {lookup_asset(self, c, asset, info)}})}})

\* The ClientOrderRequest of a market-style order.
MarketOrder(asset, is_buy, reduce_only, px, sz) ==
    [asset |-> asset, is_buy |-> is_buy, reduce_only |-> reduce_only,
     limit_px |-> px, sz |-> sz, tif |-> "Ioc"]

\* The order request built from what calculate_slippage_price returned.
open_request(c, params) ==
    LET got == OutOf(c, "calculate_slippage_price")
    IN  MarketOrder(params.asset, params.is_buy, FALSE, got.px,
                    round_to_decimals(params.sz, got.sz_decimals))

market_open(self, cur, params, info, build, env) ==
    The({IF Done(c1) THEN c1
         ELSE The({Then(Note(c1, "order_request", params.asset, Ok(request)),
                        order(self, cur, request, params.wallet, env)) :
                    request \in {open_request(c1, params)}}) :
            c1 \in {calculate_slippage_price(self, NewCall("market_open", params),
                        params.asset, params.is_buy,
                        unwrap_or(params.slippage, DefaultSlippage),
                        params.px, info, build)}})

market_open_with_builder(self, cur, params, builder, info, build, env) ==
    The({IF Done(c1) THEN c1
         ELSE The({Then(Note(c1, "order_request", params.asset, Ok(request)),
                        order_with_builder(self, cur, request, params.wallet,
                                           builder, env)) :
                    request \in {open_request(c1, params)}}) :
            c1 \in {calculate_slippage_price(self,
                        NewCall("market_open_with_builder", params),
                        params.asset, params.is_buy,
                        unwrap_or(params.slippage, DefaultSlippage),
                        params.px, info, build)}})

\* `szi < 0.0`
is_negative(x) == ~x.nan /\ x.m < 0
\* f64::abs
f64_abs(x) == IF x.nan THEN NaN ELSE Dec(Abs(x.m), x.e)

\* market_close, first part: the user-state request, the position in the
\* asset, its signed size.
find_position(self, params, wallet, info) ==
    LET c1 == Step(NewCall("market_close", params), "base_url",
                   self.http_client.base_url, match_base_url(self))
        c2 == Step(c1, "info_user_state", wallet, info_request("user_state", info))
        c3 == Step(c2, "find_position", params.asset,
                   find_named(OutOf(c2, "info_user_state"), params.asset))
    IN  Step(c3, "parse_szi", OutOf(c3, "find_position").szi,
             parse_f64(OutOf(c3, "find_position").szi))

\* A closing order on the side of the position itself.
close_request_same_side(c, params) ==
    LET got == OutOf(c, "calculate_slippage_price")
        szi == OutOf(c, "parse_szi")
    IN  MarketOrder(params.asset, ~is_negative(szi), TRUE, got.px,
                    round_to_decimals(unwrap_or(params.sz, f64_abs(szi)),
                                      got.sz_decimals))

\* The reduce-only order request that closes the position.
close_request(c, params) ==
    LET got == OutOf(c, "calculate_slippage_price")
        szi == OutOf(c, "parse_szi")
    IN  MarketOrder(params.asset, is_negative(szi), TRUE, got.px,
                    round_to_decimals(unwrap_or(params.sz, f64_abs(szi)),
                                      got.sz_decimals))

market_close(self, cur, params, info, build, env) ==
    The({IF Done(c5) THEN c5
         ELSE The({Then(Note(c5, "order_request", params.asset, Ok(request)),
                        order(self, cur, request,
                              Some(unwrap_or(params.wallet, self.wallet)), env)) :
                    request \in {close_request(c5, params)}}) :
            c5 \in {The({IF Done(c4) THEN c4
                         ELSE calculate_slippage_price(self, c4, params.asset,
                                is_negative(OutOf(c4, "parse_szi")),
                                unwrap_or(params.slippage, DefaultSlippage),
                                params.px, info, build) :
                            c4 \in {find_position(self, params,
                                        unwrap_or(params.wallet, self.wallet),
                                        info)}})}})

(***************************************************************************)
(* What callers pass and what the outside world answers.                   *)
(***************************************************************************)
Clock == NonceBase..(NonceBase + MaxTick)
Faults == {"rmp", "json", "eip712", "sign", "to_string", "transport"}
Responses == {"ok", "err", "garbage"}

\* At most one step fails in a call (the first failure ends it); when none
\* fails the signature's recovery id and the server's answer are read.
Envs ==
    {[now |-> n, fault |-> f, recid |-> 0, response |-> "ok"] :
        n \in Clock, f \in Faults}
    \cup {[now |-> n, fault |-> "none", recid |-> k, response |-> r] :
        n \in Clock, k \in 0..1, r \in Responses}

WalletOpts == {None, Some(AgentWallet)}
VaultOpts == {None, Some(Vault1)}
Amounts == {"10"}
Destinations == {"0xab"}
OrderReqs == {[asset |-> coin, is_buy |-> TRUE, reduce_only |-> FALSE] : coin \in Coins}
CancelReqs == {[asset |-> coin, oid |-> 300] : coin \in Coins}
CloidReqs == {[asset |-> coin, cloid |-> [i \in 1..16 |-> 18]] : coin \in Coins}
ModifyReqs == {[oid |-> 300, order |-> o] : o \in OrderReqs}
Builders == {[builder |-> "0xAB"]}
Batches(Reqs) == UNION {[1..n -> Reqs] : n \in 0..MaxBatch}

NoCall == NewCall("none", <<>>)

\* The subscription router before any subscription: an empty routing table,
\* nothing sent upstream, nothing arrived, every endpoint empty.
Subscribers == {"a", "b"}
NoRouter ==
    [table |-> <<>>, next_id |-> 1, upstream |-> <<>>, arrived |-> 0,
     inbox |-> [s \in Subscribers |-> <<>>], got |-> [s \in Subscribers |-> <<>>],
     ended |-> {}, log |-> <<>>]

\* The tasks of the process that call the client concurrently.
Tasks == {"t1", "t2"}
\* A task that has no call in progress.
NoTask == [c |-> NoCall, at |-> 0]

Init ==
    /\ client \in {new(DefaultWallet, url, Universe, vault) :
                        url \in BaseUrls, vault \in VaultOpts}
    /\ CUR_NONCE = 0
    /\ pc = "idle"
    /\ call = NoCall
    /\ hashed = <<>>
    /\ tasks = [t \in Tasks |-> NoTask]
    /\ issued = <<>>
    /\ wire = <<>>
    /\ roundings = <<>>
    /\ ws = NoRouter

\* A caller may start a call while the clock of the model has room.
CanCall == pc = "idle" /\ CUR_NONCE < NonceBase + MaxTick

\* The function has run to its end: its result is with the caller, or the
\* task has unwound; next_nonce has moved the process-wide counter.
Ran(c) ==
    /\ call' = c
    /\ CUR_NONCE' = IF StepsOf(c, "next_nonce") = <<>> THEN CUR_NONCE
                    ELSE StepsOf(c, "next_nonce")[Len(StepsOf(c, "next_nonce"))][3][2]
    /\ pc' = IF c.result[1] = "Panic" THEN "panicked" ELSE "returned"
    /\ UNCHANGED <<client, hashed, tasks, issued, wire, roundings, ws>>

UsdcTransfer ==
    /\ CanCall
    /\ \E amount \in Amounts, destination \in Destinations,
          w \in WalletOpts, env \in Envs :
            Ran(usdc_transfer(client, CUR_NONCE, amount, destination, w, env))

ClassTransfer ==
    /\ CanCall
    /\ \E to_perp \in BOOLEAN, w \in WalletOpts, env \in Envs :
            Ran(class_transfer(client, CUR_NONCE, 10, to_perp, w, env))

TransferUsdToSpot ==
    /\ CanCall
    /\ \E usdc \in Amounts, w \in WalletOpts, env \in Envs :
            Ran(transfer_usd_to_spot(client, CUR_NONCE, usdc, w, env))

ApproveBuilderFee ==
    /\ CanCall
    /\ \E w \in WalletOpts, env \in Envs :
            Ran(approve_builder_fee(client, CUR_NONCE, Vault2, "0.001%", w, env))

VaultTransfer ==
    /\ CanCall
    /\ \E is_deposit \in BOOLEAN, usd \in Amounts,
          v \in {None, Some(Vault2)}, w \in WalletOpts, env \in Envs :
            Ran(vault_transfer(client, CUR_NONCE, is_deposit, usd, v, w, env))

Order ==
    /\ CanCall
    /\ \E o \in OrderReqs, w \in WalletOpts, env \in Envs :
            Ran(order(client, CUR_NONCE, o, w, env))

OrderWithBuilder ==
    /\ CanCall
    /\ \E o \in OrderReqs, w \in WalletOpts, b \in Builders, env \in Envs :
            Ran(order_with_builder(client, CUR_NONCE, o, w, b, env))

BulkOrder ==
    /\ CanCall
    /\ \E orders \in Batches(OrderReqs), w \in WalletOpts, env \in Envs :
            Ran(bulk_order(client, CUR_NONCE, orders, w, env))

BulkOrderWithBuilder ==
    /\ CanCall
    /\ \E orders \in Batches(OrderReqs), w \in WalletOpts,
          b \in Builders, env \in Envs :
            Ran(bulk_order_with_builder(client, CUR_NONCE, orders, w, b, env))

Cancel ==
    /\ CanCall
    /\ \E x \in CancelReqs, w \in WalletOpts, env \in Envs :
            Ran(cancel(client, CUR_NONCE, x, w, env))

BulkCancel ==
    /\ CanCall
    /\ \E cancels \in Batches(CancelReqs), w \in WalletOpts, env \in Envs :
            Ran(bulk_cancel(client, CUR_NONCE, cancels, w, env))

Modify ==
    /\ CanCall
    /\ \E m \in ModifyReqs, w \in WalletOpts, env \in Envs :
            Ran(modify(client, CUR_NONCE, m, w, env))

BulkModify ==
    /\ CanCall
    /\ \E modifies \in Batches(ModifyReqs), w \in WalletOpts, env \in Envs :
            Ran(bulk_modify(client, CUR_NONCE, modifies, w, env))

CancelByCloid ==
    /\ CanCall
    /\ \E x \in CloidReqs, w \in WalletOpts, env \in Envs :
            Ran(cancel_by_cloid(client, CUR_NONCE, x, w, env))

BulkCancelByCloid ==
    /\ CanCall
    /\ \E cancels \in Batches(CloidReqs), w \in WalletOpts, env \in Envs :
            Ran(bulk_cancel_by_cloid(client, CUR_NONCE, cancels, w, env))

UpdateLeverage ==
    /\ CanCall
    /\ \E coin \in Coins, is_cross \in BOOLEAN, w \in WalletOpts, env \in Envs :
            Ran(update_leverage(client, CUR_NONCE, 5, coin, is_cross, w, env))

UpdateIsolatedMargin ==
    /\ CanCall
    /\ \E coin \in Coins, w \in WalletOpts, env \in Envs :
            Ran(update_isolated_margin(client, CUR_NONCE, 1, coin, w, env))

WithdrawFromBridge ==
    /\ CanCall
    /\ \E amount \in Amounts, destination \in Destinations,
          w \in WalletOpts, env \in Envs :
            Ran(withdraw_from_bridge(client, CUR_NONCE, amount, destination, w, env))

SpotTransfer ==
    /\ CanCall
    /\ \E amount \in Amounts, destination \in Destinations,
          w \in WalletOpts, env \in Envs :
            Ran(spot_transfer(client, CUR_NONCE, amount, destination, "PURR", w, env))

SetReferrer ==
    /\ CanCall
    /\ \E w \in WalletOpts, env \in Envs :
            Ran(set_referrer(client, CUR_NONCE, "REF1", w, env))

\* The caller has taken the result; the client is ready for the next call.
Return ==
    /\ pc = "returned"
    /\ pc' = "idle"
    /\ call' = NoCall
    /\ UNCHANGED <<client, CUR_NONCE, hashed, tasks, issued, wire, roundings, ws>>

Next ==
    \/ UsdcTransfer \/ ClassTransfer \/ TransferUsdToSpot \/ ApproveBuilderFee
    \/ VaultTransfer \/ Order \/ OrderWithBuilder \/ BulkOrder
    \/ BulkOrderWithBuilder \/ Cancel \/ BulkCancel \/ Modify \/ BulkModify
    \/ CancelByCloid \/ BulkCancelByCloid \/ UpdateLeverage
    \/ UpdateIsolatedMargin \/ WithdrawFromBridge \/ SpotTransfer
    \/ SetReferrer \/ Return

Spec == Init /\ [][Next]_vars

(***************************************************************************)
(* Second specification: Actions::hash as a function.  Each step hashes    *)
(* one action under two (timestamp, vault_address) pairs.                  *)
(***************************************************************************)
HashNonces == {0, 1, 255, 256, 65536, NonceBase + MaxTick}
HashVaults == {None, Some(Vault1), Some(Vault2)}
HashActions ==
    {Actions("Cancel", [cancels |-> [i \in 1..n |-> [asset |-> i - 1, oid |-> 300]]]) :
        n \in 0..MaxBatch}
    \cup {Actions("UpdateLeverage", [asset |-> 1, is_cross |-> x, leverage |-> 5]) :
        x \in BOOLEAN}
    \cup {Actions("SetReferrer", [code |-> "REF1"])}

HashEval(action, timestamp, vault_address, env) ==
    [action |-> action, timestamp |-> timestamp, vault_address |-> vault_address,
     fault |-> env.fault,
     out |-> Actions_hash(action, timestamp, vault_address, env)]

HashInit == Init

HashTwice ==
    /\ hashed = <<>>
    /\ \E a \in HashActions, n1 \in HashNonces, n2 \in HashNonces,
          v1 \in HashVaults, v2 \in HashVaults,
          f \in {"none", "rmp"} :
            LET env == [now |-> 0, fault |-> f, recid |-> 0, response |-> "ok"] IN
            hashed' = <<HashEval(a, n1, v1, env), HashEval(a, n2, v2, env)>>
    /\ UNCHANGED <<client, CUR_NONCE, pc, call, tasks, issued, wire, roundings, ws>>

HashNext == HashTwice

SpecHash == HashInit /\ [][HashNext]_vars

(***************************************************************************)
(* Third specification: several calls in flight on one client.  A call     *)
(* runs from one await to the next without interruption; between awaits    *)
(* the other tasks run.  The awaits of a call are the signer's sign_hash   *)
(* and the HTTP client's post; next_nonce is a plain function call.        *)
(***************************************************************************)
\* What the outside world answers in this specification.
ConcEnvs ==
    {[now |-> n, fault |-> f, recid |-> 0, response |-> "ok"] :
        n \in Clock, f \in {"transport"}}
    \cup {[now |-> n, fault |-> "none", recid |-> 0, response |-> r] :
        n \in Clock, r \in {"ok", "err"}}

\* The steps of a call after which the task may be suspended or is done:
\* the nonce draw that ends its first stretch, every await, and its end.
Stops(c) ==
    {i \in 1..Len(c.trace) :
        c.trace[i][1] \in {"next_nonce", "sign_l1_action", "sign_typed_data",
                           "http_post"}}
    \cup {Len(c.trace)}

\* The first stop after position at.
NextStop(c, at) ==
    CHOOSE i \in Stops(c) : i > at /\ \A j \in Stops(c) : j > at => i <= j

InFlight(t) == tasks[t].at < Len(tasks[t].c.trace)

ConcInit == Init

\* A task calls the client: the call runs up to its nonce draw (or to its
\* end, when it returns before drawing one).
Started(t, c) ==
    /\ tasks' = [tasks EXCEPT ![t] = [c |-> c, at |-> NextStop(c, 0)]]
    /\ IF StepsOf(c, "next_nonce") = <<>>
       THEN UNCHANGED <<CUR_NONCE, issued>>
       ELSE /\ CUR_NONCE' = Timestamp(c)
            /\ issued' = Append(issued,
                    [task |-> t, nonce |-> Timestamp(c), found |-> CUR_NONCE])
    /\ UNCHANGED <<client, pc, call, hashed, wire, roundings, ws>>

CanStart(t) == ~InFlight(t) /\ CUR_NONCE < NonceBase + MaxTick

ConcUsdcTransfer ==
    \E t \in Tasks, env \in ConcEnvs :
        /\ CanStart(t)
        /\ Started(t, usdc_transfer(client, CUR_NONCE, "10", "0xab", None, env))

ConcCancel ==
    \E t \in Tasks, coin \in {"ETH", UnknownCoin}, env \in ConcEnvs :
        /\ CanStart(t)
        /\ Started(t, cancel(client, CUR_NONCE, [asset |-> coin, oid |-> 300],
                             None, env))

ConcVaultTransfer ==
    \E t \in Tasks, env \in ConcEnvs :
        /\ CanStart(t)
        /\ Started(t, vault_transfer(client, CUR_NONCE, TRUE, "10", None, None, env))

\* A suspended task is resumed and runs to its next await or to its end;
\* reaching the HTTP client's post puts the envelope on the wire.
ConcResume ==
    \E t \in Tasks :
        /\ InFlight(t)
        /\ LET c == tasks[t].c
               to == NextStop(c, tasks[t].at)
           IN  /\ tasks' = [tasks EXCEPT ![t].at = to]
               /\ wire' = IF c.trace[to][1] = "http_post"
                          THEN Append(wire, [task |-> t, nonce |-> c.trace[to][2].nonce])
                          ELSE wire
        /\ UNCHANGED <<client, CUR_NONCE, pc, call, hashed, issued, roundings, ws>>

ConcNext == ConcUsdcTransfer \/ ConcCancel \/ ConcVaultTransfer \/ ConcResume

SpecConc == ConcInit /\ [][ConcNext]_vars

(***************************************************************************)
(* Fourth specification: the market-style operations, one call at a time.  *)
(***************************************************************************)
\* A perpetual the exchange has listed after the client was constructed.
NewCoin == "NEW"
MarketAssets == {"BTC", "ETH", UnknownCoin, SpotUniverse[1], NewCoin}
SzDecimalChoices == {2, 7}

\* The universe the metadata service answers with: the client's universe,
\* a name the client holds as a spot pair, and the new listing.
LiveUniverse(szd) ==
    [i \in 1..4 |->
        [name |-> <<"BTC", "ETH", SpotUniverse[1], NewCoin>>[i],
         sz_decimals |-> szd]]

Numeric(x) == [numeric |-> TRUE, value |-> x]
Malformed == [numeric |-> FALSE, value |-> NaN]

\* The mids: 30000.5 for BTC, a malformed string for ETH, 0.00123456 for
\* the spot name; none for the new listing.
LiveMids ==
    [name \in {"BTC", "ETH", SpotUniverse[1]} |->
        CASE name = "BTC" -> Numeric(Dec(300005, -1))
          [] name = "ETH" -> Malformed
          [] OTHER -> Numeric(Dec(123456, -8))]

\* The user's positions: short 0.5 BTC, long 1.23456 of the spot name, an
\* ETH position whose size does not parse.
LivePositions ==
    << [name |-> "BTC", szi |-> Numeric(Dec(-5, -1))],
       [name |-> SpotUniverse[1], szi |-> Numeric(Dec(123456, -5))],
       [name |-> "ETH", szi |-> Malformed] >>

\* At most one of the information requests of a call fails.
Infos ==
    {[universe |-> LiveUniverse(szd), mids |-> LiveMids,
      positions |-> LivePositions, fault |-> "none"] : szd \in SzDecimalChoices}
    \cup {[universe |-> LiveUniverse(2), mids |-> LiveMids,
            positions |-> LivePositions, fault |-> f] :
                f \in {"meta", "all_mids", "user_state"}}

Builds == {"debug", "release"}

MarketEnvs ==
    {[now |-> n, fault |-> f, recid |-> 0, response |-> "ok"] :
        n \in Clock, f \in {"none"}}

Prices == {None, Some(Dec(123456, -2)), Some(Dec(4, -4))}
Slippages == {None, Some(Dec(1, -1))}
Sizes == {Dec(12345, -4)}

MarketOrderParams ==
    [asset : MarketAssets, is_buy : BOOLEAN, sz : Sizes, px : Prices,
     slippage : Slippages, wallet : {None}]
MarketCloseParams ==
    [asset : MarketAssets, sz : {None} \cup {Some(s) : s \in Sizes}, px : {None},
     slippage : Slippages, wallet : WalletOpts]

MarketInit == Init /\ client.vault_address = None

MarketOpen ==
    /\ CanCall
    /\ \E params \in MarketOrderParams, info \in Infos, build \in Builds,
          env \in MarketEnvs :
            Ran(market_open(client, CUR_NONCE, params, info, build, env))

MarketOpenWithBuilder ==
    /\ CanCall
    /\ \E params \in MarketOrderParams, builder \in Builders, info \in Infos,
          build \in Builds, env \in MarketEnvs :
            Ran(market_open_with_builder(client, CUR_NONCE, params, builder,
                                         info, build, env))

MarketClose ==
    /\ CanCall
    /\ \E params \in MarketCloseParams, info \in Infos, build \in Builds,
          env \in MarketEnvs :
            Ran(market_close(client, CUR_NONCE, params, info, build, env))

MarketNext == MarketOpen \/ MarketOpenWithBuilder \/ MarketClose \/ Return

SpecMarket == MarketInit /\ [][MarketNext]_vars

(***************************************************************************)
(* Fifth specification: the rounding of prices as a function.  A price is  *)
(* roundings, and what came out is roundings again with the same limits.       *)
(***************************************************************************)
RoundMantissas == {1, 4, 15, 95, 12345, 123456, 999995}
RoundExponents == (0 - 8)..1
RoundDecimals == {0, 1, 3, 4, 6, 8}

RoundInit == Init

\* The price m * 10^e is roundings to SigFigs significant figures and d decimals.
RoundPrice ==
    /\ roundings = <<>>
    /\ \E m \in RoundMantissas, e \in RoundExponents, d \in RoundDecimals,
          build \in Builds :
            roundings' = [value |-> Dec(m, e), decimals |-> d, build |-> build,
                        out |-> <<round_to_significant_and_decimal(
                                        Dec(m, e), SigFigs, d, build)>>]
    /\ UNCHANGED <<client, CUR_NONCE, pc, call, hashed, tasks, issued, wire, ws>>

\* What the last rounding returned is roundings again.
RoundAgain ==
    /\ roundings # <<>>
    /\ Len(roundings.out) = 1
    /\ IsOk(roundings.out[1])
    /\ roundings' = [roundings EXCEPT !.out = Append(@,
                        round_to_significant_and_decimal(
                            roundings.out[1][2], SigFigs, roundings.decimals,
                            roundings.build))]
    /\ UNCHANGED <<client, CUR_NONCE, pc, call, hashed, tasks, issued, wire, ws>>

RoundNext == RoundPrice \/ RoundAgain

SpecRound == RoundInit /\ [][RoundNext]_vars

(***************************************************************************)
(* Sixth specification: the subscription router.  ws.table is the routing  *)
(* table (one entry per subscription: its id, its topic, the endpoint it   *)
(* delivers to), ws.upstream the control frames sent to the server,        *)
(* ws.inbox the messages each endpoint holds and its owner has not yet     *)
(* received, ws.got the messages the owner has received, ws.ended the      *)
(* owners whose receive loop has seen the end of its stream, ws.log what   *)
(* the router has done, in order.                                          *)
(***************************************************************************)
\* A topic stands for one subscription key: a channel and its scope.
Topics == {"notification", "orderUpdates"}
\* The frames the server pushes: messages of the first topic, and a shape
\* the Message union does not know.
Frames == {[channel |-> "notification"], [channel |-> "unknown"]}

Event(ev, id, to, msg, topic) ==
    [ev |-> ev, id |-> id, to |-> to, msg |-> msg, topic |-> topic]

\* Decoding an inbound frame into the Message union: the topic it is tagged
\* with, or the failure of a shape the union does not know.
decode(frame) ==
    IF frame.channel \in Topics THEN Ok(frame.channel) ELSE Err("JsonParse")

\* The entries of the table registered for a topic.
Registered(w, topic) == SelectSeq(w.table, LAMBDA e : e.topic = topic)

\* A subscribe that sends the subscribe frame for every subscriber.
subscribe_always_sends(w, who, topic) ==
    [w EXCEPT
        !.table = Append(@, [id |-> w.next_id, topic |-> topic, to |-> who]),
        !.next_id = @ + 1,
        !.upstream = Append(@, [method |-> "subscribe", topic |-> topic]),
        !.log = Append(@, Event("subscribe", w.next_id, who, 0, topic))]

\* subscribe: registers a table entry for the caller's endpoint, sends the
\* subscribe frame when it is the topic's first subscriber, returns the id.
subscribe(w, who, topic) ==
    [w EXCEPT
        !.table = Append(@, [id |-> w.next_id, topic |-> topic, to |-> who]),
        !.next_id = @ + 1,
        !.upstream = IF Registered(w, topic) = <<>>
                     THEN Append(@, [method |-> "subscribe", topic |-> topic])
                     ELSE @,
        !.log = Append(@, Event("subscribe", w.next_id, who, 0, topic))]

\* An unsubscribe that tells the server and keeps the table entry.
unsubscribe_upstream_only(w, id) ==
    LET entry == SelectSeq(w.table, LAMBDA e : e.id = id)[1]
    IN  [w EXCEPT
            !.upstream = Append(@, [method |-> "unsubscribe", topic |-> entry.topic]),
            !.log = Append(@, Event("unsubscribe", id, entry.to, 0, entry.topic))]

\* An unsubscribe that drops every entry of the subscription's topic.
unsubscribe_whole_topic(w, id) ==
    LET entry == SelectSeq(w.table, LAMBDA e : e.id = id)[1]
    IN  [w EXCEPT
            !.table = SelectSeq(w.table, LAMBDA e : e.topic # entry.topic),
            !.upstream = Append(@, [method |-> "unsubscribe", topic |-> entry.topic]),
            !.log = Append(@, Event("unsubscribe", id, entry.to, 0, entry.topic))]

\* unsubscribe: removes the entry, sends the unsubscribe frame when it was
\* the topic's last subscriber.
unsubscribe(w, id) ==
    LET entry == SelectSeq(w.table, LAMBDA e : e.id = id)[1]
        rest == SelectSeq(w.table, LAMBDA e : e.id # id)
    IN  [w EXCEPT
            !.table = rest,
            !.upstream = IF SelectSeq(rest, LAMBDA e : e.topic = entry.topic) = <<>>
                         THEN Append(@, [method |-> "unsubscribe", topic |-> entry.topic])
                         ELSE @,
            !.log = Append(@, Event("unsubscribe", id, entry.to, 0, entry.topic))]

\* A dispatch that hands every frame to every entry of the table.
dispatch_broadcast(w, frame) ==
    LET n == w.arrived + 1
        targets == w.table
    IN  [w EXCEPT
            !.arrived = n,
            !.inbox = [s \in Subscribers |->
                        w.inbox[s] \o
                        [i \in 1..Len(SelectSeq(targets, LAMBDA e : e.to = s)) |-> n]],
            !.log = Append(@, Event("arrive", 0, "", n, frame.channel)) \o
                    [i \in 1..Len(targets) |->
                        Event("deliver", targets[i].id, targets[i].to, n, frame.channel)]]

\* The dispatch loop takes one frame off the connection and hands the
\* message to every endpoint registered for its topic, in table order; a
\* message no entry matches is dropped, and so is a frame that does not
\* decode: the loop goes on to the next frame.
dispatch(w, frame) ==
    LET n == w.arrived + 1
        decoded == decode(frame)
        topic == IF IsOk(decoded) THEN decoded[2] ELSE ""
        targets == IF IsOk(decoded) THEN Registered(w, topic) ELSE <<>>
    IN  [w EXCEPT
            !.arrived = n,
            !.inbox = [s \in Subscribers |->
                        w.inbox[s] \o
                        [i \in 1..Len(SelectSeq(targets, LAMBDA e : e.to = s)) |-> n]],
            !.log = Append(@, Event(IF IsOk(decoded) THEN "arrive" ELSE "undecodable",
                                    0, "", n, topic)) \o
                    [i \in 1..Len(targets) |->
                        Event("deliver", targets[i].id, targets[i].to, n, topic)]]

\* The endpoint's senders live in the table entries and nowhere else: the
\* stream has ended for an owner who subscribed once no entry delivers to
\* the owner any more, and a closed endpoint cannot be registered again.
Closed(w, who) ==
    /\ \E i \in 1..Len(w.log) : w.log[i].ev = "subscribe" /\ w.log[i].to = who
    /\ \A i \in 1..Len(w.table) : w.table[i].to # who

\* A receive that takes the newest message the endpoint holds.
recv_newest(w, who) ==
    IF w.inbox[who] # <<>>
    THEN [w EXCEPT !.inbox[who] = SubSeq(@, 1, Len(@) - 1),
                   !.got[who] = Append(@, w.inbox[who][Len(w.inbox[who])])]
    ELSE [w EXCEPT !.ended = @ \cup {who}]

\* A receive that stays pending on an endpoint that is closed and empty.
recv_pending(w, who) ==
    IF w.inbox[who] # <<>>
    THEN [w EXCEPT !.inbox[who] = Tail(@),
                   !.got[who] = Append(@, Head(w.inbox[who]))]
    ELSE w

\* `receiver.recv().await`: the oldest message the endpoint holds, or the
\* end of the stream, which ends the owner's loop.
recv(w, who) ==
    IF w.inbox[who] # <<>>
    THEN [w EXCEPT !.inbox[who] = Tail(@),
                   !.got[who] = Append(@, Head(w.inbox[who]))]
    ELSE [w EXCEPT !.ended = @ \cup {who}]

\* What the callers ask for: both subscribe to the first topic, one of them
\* to the second as well; a caller holds one subscription to a topic at a
\* time.
Subscriptions ==
    {[who |-> "a", topic |-> "notification"],
     [who |-> "b", topic |-> "notification"],
     [who |-> "b", topic |-> "orderUpdates"]}

WsInit == Init /\ is_mainnet(client.http_client) /\ client.vault_address = None

WsSubscribe ==
    /\ ws.next_id <= MaxSubs
    /\ \E sub \in Subscriptions :
            /\ sub.who \notin ws.ended
            /\ ~Closed(ws, sub.who)
            /\ \A i \in 1..Len(ws.table) :
                    ws.table[i].to # sub.who \/ ws.table[i].topic # sub.topic
            /\ ws' = subscribe(ws, sub.who, sub.topic)
    /\ UNCHANGED <<client, CUR_NONCE, pc, call, hashed, tasks, issued, wire, roundings>>

WsUnsubscribe ==
    /\ \E i \in 1..Len(ws.table) : ws' = unsubscribe(ws, ws.table[i].id)
    /\ UNCHANGED <<client, CUR_NONCE, pc, call, hashed, tasks, issued, wire, roundings>>

WsArrive ==
    /\ ws.arrived < MaxArrivals
    /\ \E frame \in Frames : ws' = dispatch(ws, frame)
    /\ UNCHANGED <<client, CUR_NONCE, pc, call, hashed, tasks, issued, wire, roundings>>

\* One turn of an owner's receive loop.
WsPolls(who) ==
    /\ who \notin ws.ended
    /\ ws.inbox[who] # <<>> \/ Closed(ws, who)
    /\ ws' = recv(ws, who)
    /\ UNCHANGED <<client, CUR_NONCE, pc, call, hashed, tasks, issued, wire, roundings>>

WsRecv == \E who \in Subscribers : WsPolls(who)

WsNext == WsSubscribe \/ WsUnsubscribe \/ WsArrive \/ WsRecv

SpecWs == WsInit /\ [][WsNext]_vars

\* The router with owners that keep polling their endpoints: the receive
\* loop awaits recv() again after every message, so a receive that stays
\* possible is eventually taken.
SpecWsFair == SpecWs /\ \A who \in Subscribers : WF_vars(WsPolls(who))

(***************************************************************************)
(* Reading a finished call.                                                *)
(***************************************************************************)
Finished == pc # "idle"

\* The positions of the steps of a name in the call's trace.
Pos(c, name) == {i \in 1..Len(c.trace) : c.trace[i][1] = name}
\* Every step named a comes before every step named b.
Before(c, a, b) == \A i \in Pos(c, a), j \in Pos(c, b) : i < j

\* The nonces the call has drawn, in order.
Nonces(c) ==
    [i \in 1..Len(StepsOf(c, "next_nonce")) |-> StepsOf(c, "next_nonce")[i][3][2]]
\* The counter value the call found when it drew its nonce.
FoundNonce(c) == StepsOf(c, "next_nonce")[1][2]

\* The signing steps of either path, and the signatures they produced.
SignSteps(c) ==
    SelectSeq(c.trace, LAMBDA e : e[1] \in {"sign_l1_action", "sign_typed_data"})
Signatures(c) ==
    [i \in 1..Len(SelectSeq(SignSteps(c), LAMBDA e : e[3][1] = "Ok")) |->
        SelectSeq(SignSteps(c), LAMBDA e : e[3][1] = "Ok")[i][3][2]]

\* The request bodies handed to the HTTP client, and the only one of them.
Posts(c) == StepsOf(c, "http_post")
Envelope(c) == Posts(c)[1][2]

\* The integer a big-endian byte field stands for.
RECURSIVE BeValue(_, _)
BeValue(bytes, k) == IF k = 0 THEN 0 ELSE BeValue(bytes, k - 1) * 256 + bytes[k]

\* The byte of weight 256^k in n; the model's integers stay below 256^4.
Digit(n, k) == IF k > 3 THEN 0 ELSE (n \div (256 ^ k)) % 256

\* The length of what Actions::hash appends after the nonce field.
VaultSuffixLen(self) == IF IsSome(self.vault_address) THEN 1 + AddrLen ELSE 1

\* The nonce inside what a signature signs: the nonce field of the hash
\* preimage on the L1 path, the time or nonce field of the typed struct.
SignedNonce(self, sig) ==
    LET p == sig.msg[2] IN
    CASE p.struct = "Agent" ->
            LET bytes == p.connection_id[2]
                last == Len(bytes) - VaultSuffixLen(self)
            IN  BeValue(SubSeq(bytes, last - NonceBytes + 1, last), NonceBytes)
      [] p.struct \in {"UsdSend", "Withdraw3", "SpotSend"} -> p.time
      [] OTHER -> p.nonce

(***************************************************************************)
(* C1.  A call that reaches the exchange has drawn exactly one nonce, and   *)
(* that one value is both the nonce inside the payload it signed and the   *)
(* nonce field of the envelope it posted; the envelope carries the         *)
(* signature made over that payload.                                       *)
(***************************************************************************)
C1_OneNonceSignedAndPosted ==
    (Finished /\ Posts(call) # <<>>) =>
        /\ Len(Nonces(call)) = 1
        /\ Len(Posts(call)) = 1
        /\ Len(Signatures(call)) = 1
        /\ Envelope(call).nonce = Nonces(call)[1]
        /\ SignedNonce(client, Signatures(call)[1]) = Nonces(call)[1]
        /\ Envelope(call).signature.r = <<"r", Signatures(call)[1].signer,
                                          Signatures(call)[1].msg>>

\* An order posted by a client with a vault, on a nonce one past the counter.
C1_Witness ==
    /\ Finished /\ Posts(call) # <<>>
    /\ call.op = "bulk_order" /\ Len(call.args.orders) = 2
    /\ IsSome(client.vault_address)
    /\ FoundNonce(call) = NonceBase
    /\ Envelope(call).nonce = NonceBase + 1
    /\ call.result = Ok("ExchangeResponseStatus::Ok")

(***************************************************************************)
(* C2.  An operation that resolves coin symbols and is given a symbol the  *)
(* client's map does not hold returns AssetNotFound, and has hashed        *)
(* nothing, signed nothing and sent nothing.                               *)
(***************************************************************************)
ResolvingOps ==
    {"order", "order_with_builder", "bulk_order", "bulk_order_with_builder",
     "cancel", "bulk_cancel", "cancel_by_cloid", "bulk_cancel_by_cloid",
     "modify", "bulk_modify", "update_leverage", "update_isolated_margin"}

\* The requests of a call, as a list (one element for the single forms).
Requests(c) ==
    CASE c.op \in {"bulk_order", "bulk_order_with_builder"} -> c.args.orders
      [] c.op \in {"order", "order_with_builder"} -> <<c.args.order>>
      [] c.op \in {"bulk_cancel", "bulk_cancel_by_cloid"} -> c.args.cancels
      [] c.op \in {"cancel", "cancel_by_cloid"} -> <<c.args.cancel>>
      [] c.op = "bulk_modify" -> c.args.modifies
      [] c.op = "modify" -> <<c.args.modify>>
      [] OTHER -> <<>>

\* The coin symbols the caller named, in the caller's order.
CoinsNamed(c) ==
    CASE c.op \in {"update_leverage", "update_isolated_margin"} -> <<c.args.coin>>
      [] c.op \in {"bulk_modify", "modify"} ->
            [i \in 1..Len(Requests(c)) |-> Requests(c)[i].order.asset]
      [] OTHER -> [i \in 1..Len(Requests(c)) |-> Requests(c)[i].asset]

NamesUnknownCoin(self, c) ==
    /\ c.op \in ResolvingOps
    /\ \E i \in 1..Len(CoinsNamed(c)) : CoinsNamed(c)[i] \notin DOMAIN self.coin_to_asset

C2_UnknownCoinStopsEarly ==
    (Finished /\ NamesUnknownCoin(client, call)) =>
        /\ call.result = Err("AssetNotFound")
        /\ StepsOf(call, "hash") = <<>>
        /\ SignSteps(call) = <<>>
        /\ StepsOf(call, "to_string") = <<>>
        /\ Posts(call) = <<>>

\* A batch of two cancels whose first coin is listed and whose last is not.
C2_Witness ==
    /\ Finished /\ call.op = "bulk_cancel"
    /\ Len(call.args.cancels) = 2
    /\ call.args.cancels[1].asset \in DOMAIN client.coin_to_asset
    /\ call.args.cancels[2].asset = UnknownCoin
    /\ call.result = Err("AssetNotFound")
    /\ Len(StepsOf(call, "resolve")) = 2

(***************************************************************************)
(* C3.  The order of a call's steps.                                       *)
(***************************************************************************)
\* The steps after symbol resolution and nonce, in the order the state
\* machine gives them: hash, sign, assemble the envelope, submit, decode.
TailInOrder(c) ==
    /\ Before(c, "hash", "sign_l1_action")
    /\ Before(c, "sign_l1_action", "to_string")
    /\ Before(c, "sign_typed_data", "to_string")
    /\ Before(c, "to_string", "http_post")
    /\ Before(c, "http_post", "from_str")

ResolutionFailed(c) ==
    \E i \in Pos(c, "resolve") : c.trace[i][3] = Err("AssetNotFound")

BulkOps ==
    {"bulk_order", "bulk_order_with_builder", "bulk_cancel",
     "bulk_cancel_by_cloid", "bulk_modify"}
SingleOps == {"order", "order_with_builder", "cancel", "cancel_by_cloid", "modify"}

\* The element list of a batch action.
Elements(action) ==
    CASE action.variant = "Order" -> action.inner.orders
      [] action.variant \in {"Cancel", "CancelByCloid"} -> action.inner.cancels
      [] OTHER -> action.inner.modifies

\* What request req turns into.
ElementFor(self, c, req) ==
    CASE c.op \in {"bulk_order", "bulk_order_with_builder", "order",
                   "order_with_builder"} ->
            [asset |-> self.coin_to_asset[req.asset], is_buy |-> req.is_buy,
             reduce_only |-> req.reduce_only]
      [] c.op \in {"bulk_cancel", "cancel"} ->
            [asset |-> self.coin_to_asset[req.asset], oid |-> req.oid]
      [] c.op \in {"bulk_cancel_by_cloid", "cancel_by_cloid"} ->
            [asset |-> self.coin_to_asset[req.asset],
             cloid |-> uuid_to_hex_string(req.cloid)]
      [] OTHER ->
            [oid |-> req.oid,
             order |-> [asset |-> self.coin_to_asset[req.order.asset],
                        is_buy |-> req.order.is_buy,
                        reduce_only |-> req.order.reduce_only]]

\* The bulk form of a single-item call, run on the one-element list.
BulkForm(self, c, env) ==
    CASE c.op = "order" ->
            bulk_order(self, FoundNonce(c), <<c.args.order>>, c.args.wallet, env)
      [] c.op = "order_with_builder" ->
            bulk_order_with_builder(self, FoundNonce(c), <<c.args.order>>,
                                    c.args.wallet, c.args.builder, env)
      [] c.op = "cancel" ->
            bulk_cancel(self, FoundNonce(c), <<c.args.cancel>>, c.args.wallet, env)
      [] c.op = "cancel_by_cloid" ->
            bulk_cancel_by_cloid(self, FoundNonce(c), <<c.args.cancel>>,
                                 c.args.wallet, env)
      [] OTHER ->
            bulk_modify(self, FoundNonce(c), <<c.args.modify>>, c.args.wallet, env)

C4_BulkIsOneAction ==
    (Finished /\ call.op \in BulkOps \cup SingleOps /\ Len(Requests(call)) >= 1) =>
        /\ Len(Nonces(call)) = 1
        /\ Len(StepsOf(call, "hash")) <= 1
        /\ Len(SignSteps(call)) <= 1
        /\ Len(Posts(call)) <= 1
        /\ StepsOf(call, "hash") # <<>> =>
            LET action == StepsOf(call, "hash")[1][2].action IN
            /\ Len(Elements(action)) = Len(Requests(call))
            /\ \A i \in 1..Len(Requests(call)) :
                    Elements(action)[i] = ElementFor(client, call, Requests(call)[i])
            /\ Posts(call) # <<>> => Envelope(call).action = Serialize(action)
        /\ call.op \in SingleOps =>
            \E env \in Envs :
                /\ BulkForm(client, call, env).trace = call.trace
                /\ BulkForm(client, call, env).result = call.result

\* Two cancels for two different coins, posted as one action.
C4_Witness ==
    /\ Finished /\ call.op = "bulk_cancel"
    /\ Len(call.args.cancels) = 2
    /\ call.args.cancels[1].asset = "ETH" /\ call.args.cancels[2].asset = "BTC"
    /\ Len(Posts(call)) = 1
    /\ call.result = Ok("ExchangeResponseStatus::Ok")

(***************************************************************************)
(* C5.  Which signing path each operation takes.                            *)
(***************************************************************************)
\* The typed-data path: the action struct itself is signed, nothing is hashed.
OnTypedPath(c) ==
    /\ StepsOf(c, "sign_typed_data") # <<>>
    /\ StepsOf(c, "sign_l1_action") = <<>>
    /\ StepsOf(c, "hash") = <<>>
    /\ StepsOf(c, "sign_typed_data")[1][2].payload.struct # "Agent"
    /\ \A i \in 1..Len(Signatures(c)) :
            Signatures(c)[i].msg =
                encode_eip712(StepsOf(c, "sign_typed_data")[1][2].payload)

\* The L1-agent path: the action is hashed with nonce and vault, and an
\* Agent struct holding that hash is signed.
OnL1Path(c) ==
    /\ StepsOf(c, "sign_l1_action") # <<>>
    /\ StepsOf(c, "sign_typed_data") = <<>>
    /\ Len(StepsOf(c, "hash")) = 1
    /\ \A i \in 1..Len(Signatures(c)) :
            /\ Signatures(c)[i].msg[1] = "eip712"
            /\ Signatures(c)[i].msg[2].struct = "Agent"
            /\ Signatures(c)[i].msg[2].connection_id = OutOf(c, "hash")

TransferOps == {"usdc_transfer", "spot_transfer", "withdraw_from_bridge",
                "approve_builder_fee"}
TradingOps == {"order", "order_with_builder", "bulk_order",
               "bulk_order_with_builder", "cancel", "bulk_cancel",
               "cancel_by_cloid", "bulk_cancel_by_cloid", "modify",
               "bulk_modify", "update_leverage", "update_isolated_margin",
               "vault_transfer", "class_transfer"}

\* C5 as the specification words it: set_referrer signs typed data, with
\* the four transfers; the trading operations take the L1-agent path.
C5_SetReferrerTyped ==
    (Finished /\ SignSteps(call) # <<>>) =>
        /\ call.op \in TransferOps \cup {"set_referrer"} => OnTypedPath(call)
        /\ call.op \in TradingOps => OnL1Path(call)

\* C5.  usdc_transfer, spot_transfer, withdraw_from_bridge and
\* approve_builder_fee sign their action struct as typed data; the trading
\* operations, vault_transfer, class_transfer and set_referrer take the
\* L1-agent path.
C5_PathPerOperation ==
    (Finished /\ SignSteps(call) # <<>>) =>
        /\ call.op \in TransferOps => OnTypedPath(call)
        /\ call.op \in TradingOps \cup {"set_referrer"} => OnL1Path(call)

\* A referrer code set and signed: an Agent struct over the action's hash.
C5_Witness ==
    /\ Finished /\ call.op = "set_referrer"
    /\ Len(Signatures(call)) = 1
    /\ Signatures(call)[1].msg[2].struct = "Agent"
    /\ Posts(call) # <<>>

(***************************************************************************)
(* C6.  The network of the client's base URL, and nothing the caller       *)
(* passes, decides the source of every signed Agent struct ("a" on         *)
(* mainnet, "b" elsewhere) and the hyperliquid_chain of every typed struct *)
(* ("Mainnet" on mainnet, "Testnet" elsewhere).                            *)
(***************************************************************************)
OnMainnet(self) == self.http_client.base_url = MainnetUrl

C6_NetworkBoundAtConstruction ==
    Finished =>
        /\ \A i \in 1..Len(Signatures(call)) :
                Signatures(call)[i].msg[2].struct = "Agent" =>
                    Signatures(call)[i].msg[2].source =
                        (IF OnMainnet(client) THEN "a" ELSE "b")
        /\ \A i \in Pos(call, "sign_l1_action") :
                call.trace[i][2].is_mainnet = OnMainnet(client)
        /\ \A i \in Pos(call, "sign_typed_data") :
                call.trace[i][2].payload.hyperliquid_chain =
                    (IF OnMainnet(client) THEN "Mainnet" ELSE "Testnet")

\* An order signed by a client of the local node: its Agent source is "b".
C6_Witness ==
    /\ Finished /\ client.http_client.base_url = LocalUrl
    /\ call.op = "order" /\ IsSome(call.args.wallet)
    /\ Len(Signatures(call)) = 1
    /\ Signatures(call)[1].msg[2].source = "b"

(***************************************************************************)
(* C7.  The same usdc_transfer on testnet and on mainnet.                  *)
(***************************************************************************)
\* The client that differs from self in its network only.
OtherNetwork(self) ==
    [self EXCEPT !.http_client.base_url =
        IF @ = MainnetUrl THEN TestnetUrl ELSE MainnetUrl]

\* The call's usdc_transfer as the client of the other network makes it.
Twin(self, c) ==
    LET s == StepsOf(c, "sign_typed_data")[1][3][2] IN
    usdc_transfer(OtherNetwork(self), FoundNonce(c), c.args.amount,
                  c.args.destination, c.args.wallet,
                  [now |-> Nonces(c)[1], fault |-> "none", recid |-> s.recid,
                   response |-> "ok"])

SignedUsdcTransfer ==
    /\ Finished /\ call.op = "usdc_transfer"
    /\ Len(Signatures(call)) = 1
    /\ client.http_client.base_url \in {MainnetUrl, TestnetUrl}

\* C7 as the specification words it: the signed struct is an Agent whose
\* source is "b" on testnet and "a" on mainnet.
C7_UsdcTransferAgentSource ==
    SignedUsdcTransfer =>
        /\ Signatures(call)[1].msg[2].struct = "Agent"
        /\ Signatures(call)[1].msg[2].source = (IF OnMainnet(client) THEN "a" ELSE "b")
        /\ Signatures(Twin(client, call))[1] # Signatures(call)[1]

\* C7.  usdc_transfer signs a UsdSend struct with no Agent around it; its
\* hyperliquid_chain is "Testnet" on testnet and "Mainnet" on mainnet, so
\* the same transfer on the two networks signs two different payloads that
\* agree in every other field, and yields two different signatures.
C7_UsdcTransferChainName ==
    SignedUsdcTransfer =>
        LET mine == Signatures(call)[1]
            theirs == Signatures(Twin(client, call))[1]
        IN  /\ mine.msg[2].struct = "UsdSend"
            /\ mine.msg[2].hyperliquid_chain =
                    (IF OnMainnet(client) THEN "Mainnet" ELSE "Testnet")
            /\ theirs.msg[2].hyperliquid_chain =
                    (IF OnMainnet(client) THEN "Testnet" ELSE "Mainnet")
            /\ theirs.msg[2] = [mine.msg[2] EXCEPT !.hyperliquid_chain =
                                    theirs.msg[2].hyperliquid_chain]
            /\ theirs.msg # mine.msg
            /\ theirs # mine

\* A transfer signed and accepted on testnet.
C7_Witness ==
    /\ SignedUsdcTransfer
    /\ client.http_client.base_url = TestnetUrl
    /\ Signatures(call)[1].msg[2].hyperliquid_chain = "Testnet"
    /\ call.result = Ok("ExchangeResponseStatus::Ok")

(***************************************************************************)
(* C8.  For one action, two (nonce, vault address) pairs that differ give  *)
(* two different hash preimages, and two equal pairs give the same hash.   *)
(***************************************************************************)
BothHashed ==
    /\ hashed # <<>>
    /\ hashed[1].out[1] = "Ok"
    /\ hashed[2].out[1] = "Ok"

SamePair ==
    /\ hashed[1].timestamp = hashed[2].timestamp
    /\ hashed[1].vault_address = hashed[2].vault_address

C8_HashBindsNonceAndVault ==
    BothHashed =>
        /\ ~SamePair => hashed[1].out[2][2] # hashed[2].out[2][2]
        /\ ~SamePair => hashed[1].out # hashed[2].out
        /\ SamePair => hashed[1].out = hashed[2].out

\* One action and one nonce hashed for two different vaults.
C8_Witness ==
    /\ BothHashed
    /\ hashed[1].timestamp = hashed[2].timestamp
    /\ hashed[1].vault_address = Some(Vault1)
    /\ hashed[2].vault_address = Some(Vault2)

(***************************************************************************)
(* C9.  The hash preimage is the MessagePack named-field encoding of the   *)
(* action, then the nonce as 8 big-endian bytes, then 0x00 when there is   *)
(* no vault address or 0x01 and the vault's 20 bytes when there is one;    *)
(* the hash is keccak256 of that; a MessagePack failure is RmpParse.       *)
(***************************************************************************)
PreimageLaidOut(h) ==
    LET bytes == h.out[2][2]
        m == Msgpack(Serialize(h.action))
        L == Len(m)
    IN  /\ h.out[2][1] = "keccak256"
        /\ Len(bytes) = L + NonceBytes
                        + (IF IsSome(h.vault_address) THEN 1 + AddrLen ELSE 1)
        /\ SubSeq(bytes, 1, L) = m
        /\ \A i \in 1..NonceBytes : bytes[L + i] = Digit(h.timestamp, NonceBytes - i)
        /\ IF IsSome(h.vault_address)
           THEN /\ bytes[L + NonceBytes + 1] = 1
                /\ SubSeq(bytes, L + NonceBytes + 2, L + NonceBytes + 1 + AddrLen)
                        = h.vault_address[1]
           ELSE bytes[L + NonceBytes + 1] = 0

C9_PreimageLayout ==
    \A i \in 1..Len(hashed) :
        IF hashed[i].fault = "rmp"
        THEN hashed[i].out = Err("RmpParse")
        ELSE hashed[i].out[1] = "Ok" /\ PreimageLaidOut(hashed[i])

\* Nonce 256 hashed with a vault: the nonce field ends in the bytes 1, 0.
C9_Witness ==
    /\ BothHashed
    /\ hashed[1].timestamp = 256
    /\ IsSome(hashed[1].vault_address)
    /\ hashed[1].action.variant = "Cancel"
    /\ Len(hashed[1].action.inner.cancels) = 1

(***************************************************************************)
(* C10.  A call that reaches the exchange and whose HTTP request fails in  *)
(* transport returns an error value to its caller.                         *)
(***************************************************************************)
TransportFailed(c) ==
    \E i \in Pos(c, "http_post") : c.trace[i][3][1] = "Err"

C10_TransportFailureIsReturned ==
    (Finished /\ TransportFailed(call)) =>
        /\ pc = "returned"
        /\ call.result[1] = "Err"

(***************************************************************************)
(* C11.  A call whose signing fails, in the signer or in the typed-data    *)
(* encoding of the payload, returns an error value to its caller: it does  *)
(* not panic, and it posts nothing.                                        *)
(***************************************************************************)
SigningFailed(c) ==
    \E i \in 1..Len(SignSteps(c)) : SignSteps(c)[i][3][1] # "Ok"

C11_SigningFailureIsReturned ==
    (Finished /\ SigningFailed(call)) =>
        /\ pc = "returned"
        /\ call.result[1] = "Err"
        /\ Posts(call) = <<>>

(***************************************************************************)
(* C12.  No call retries: whatever its outcome, a call issues at most one  *)
(* POST to /exchange, and over all the calls of the process, one after     *)
(* another or in flight together, no nonce is carried by two envelopes     *)
(* put on the wire.                                                        *)
(***************************************************************************)
\* The call of task t has run to its end.
Ended(t) == tasks[t].c.op # "none" /\ ~InFlight(t)

C12_OnePostPerCallNoNonceTwice ==
    /\ \A t \in Tasks : Len(Posts(tasks[t].c)) <= 1
    /\ \A i, j \in 1..Len(wire) : i # j => wire[i].nonce # wire[j].nonce
    /\ Len(wire) <= Len(issued)

\* Two tasks have each posted once: one met a transport failure, the other
\* a rejection by the server.
C12_Witness ==
    /\ Len(wire) = 2 /\ wire[1].task # wire[2].task
    /\ \A t \in Tasks : Ended(t)
    /\ \E t \in Tasks : TransportFailed(tasks[t].c)
    /\ \E t \in Tasks : tasks[t].c.result = Ok("ExchangeResponseStatus::Err")

(***************************************************************************)
(* C13: market_open, market_open_with_builder and market_close called with *)
(* a symbol the client does not know fail with AssetNotFound before any    *)
(* network request (metadata, mid price, user state, /exchange) and before *)
(* any signing.                                                            *)
(***************************************************************************)
MarketOps == {"market_open", "market_open_with_builder", "market_close"}
NetworkSteps == {"info_meta", "info_all_mids", "info_user_state", "http_post"}
NetworkRequests(c) == {i \in 1..Len(c.trace) : c.trace[i][1] \in NetworkSteps}
UnknownToClient(c) == c.args.asset \notin DOMAIN client.coin_to_asset

LastStep(c) == c.trace[Len(c.trace)]

SignedBy(c, w) ==
    /\ Signatures(c) # <<>>
    /\ \A i \in 1..Len(Signatures(c)) : Signatures(c)[i].signer = w

C14_OverrideSignsOnlyThatCall ==
    /\ client.wallet = DefaultWallet
    /\ (Finished /\ Signatures(call) # <<>>) =>
            IF IsSome(call.args.wallet)
            THEN SignedBy(call, call.args.wallet[1])
            ELSE SignedBy(call, DefaultWallet)

\* A call that follows earlier calls and passes no override is signed by the
\* default wallet.
C14_Witness ==
    /\ Finished
    /\ call.args.wallet = None
    /\ SignedBy(call, DefaultWallet)
    /\ FoundNonce(call) >= NonceBase

(***************************************************************************)
(* C15.  The symbol map is fixed at construction: every perpetual symbol   *)
(* of the universe maps to its position in the universe (counted from 0),  *)
(* and no operation, whatever its outcome, changes the map or the client's *)
(* vault address.                                                          *)
(***************************************************************************)
MapFollowsUniverse ==
    \A i \in 1..Len(Universe) : client.coin_to_asset[Universe[i]] = i - 1

C15_SymbolMapFixed ==
    /\ []MapFollowsUniverse
    /\ [][/\ client'.coin_to_asset = client.coin_to_asset
          /\ client'.vault_address = client.vault_address]_vars

\* A call has resolved a symbol through the map and has come back, after
\* earlier calls.
C15_Witness ==
    /\ pc = "returned"
    /\ Pos(call, "resolve") # {}
    /\ FoundNonce(call) >= NonceBase
    /\ IsSome(client.vault_address)
    /\ MapFollowsUniverse

(***************************************************************************)
(* C16.  The values next_nonce hands out, taken in the order of issuance,  *)
(* never decrease and never repeat, also when concurrent callers draw      *)
(* faster than the millisecond clock advances.                             *)
(***************************************************************************)
C16_IssuedNoncesIncrease ==
    \A i, j \in 1..Len(issued) : i < j => issued[i].nonce < issued[j].nonce

\* Two tasks have calls in flight at once, and the second draw found the
\* clock no later than the last issued value.
C16_Witness ==
    /\ Len(issued) >= 2
    /\ issued[1].task # issued[2].task
    /\ \A t \in Tasks : InFlight(t)
    /\ issued[2].nonce = issued[2].found + 1

(***************************************************************************)
(* C17.  With calls in flight concurrently, the nonces of the envelopes    *)
(* handed to the HTTP client, taken in the order of the posts, strictly    *)
(* increase.                                                               *)
(***************************************************************************)
C17_PostedNoncesIncrease ==
    \A i, j \in 1..Len(wire) : i < j => wire[i].nonce < wire[j].nonce

(***************************************************************************)
(* C18.  round_to_significant_and_decimal(., 5, d) is idempotent: for      *)
(* every positive price p and every d, rounding what the first rounding    *)
(* returned returns the same value.                                        *)
(***************************************************************************)
RoundedTwice == roundings # <<>> /\ Len(roundings.out) = 2

C18_RoundingIdempotent ==
    RoundedTwice => roundings.out[2] = roundings.out[1]

\* The law holds wherever the first rounding did not return zero.
RoundingIdempotentOffZero ==
    (RoundedTwice /\ roundings.out[1][2].m # 0) => roundings.out[2] = roundings.out[1]

(***************************************************************************)
(* C19.  The limit price of a market-style order is the reference price    *)
(* (the caller's px, else the mid of the asset) times 1 + slippage for a   *)
(* buy and 1 - slippage for a sell, the slippage being 0.05 when the       *)
(* caller names none, rounded to at most 5 significant figures and at most *)
(* max(0, M - szDecimals) decimals, where M is 6 for an asset whose index  *)
(* is below 10000 and 8 otherwise; the size is rounded to szDecimals       *)
(* decimals.                                                               *)
(***************************************************************************)
\* The integer x / 10^at, for a decimal x with x.e >= at.
Scaled(x, at) == x.m * 10 ^ (x.e - at)
Least(a, b) == IF a < b THEN a ELSE b

\* l lies within half a unit of the significant-figure limit plus half a
\* unit of the decimal limit of the exact value x.
RoundingOf(l, x, figures, decimals) ==
    LET unit == Digits(Abs(x.m)) + x.e - figures
        at == Least(Least(x.e, l.e), Least(unit, 0 - decimals))
    IN  /\ ~l.nan
        /\ Digits(Abs(l.m)) <= figures
        /\ l.m # 0 => l.e >= 0 - decimals
        /\ 2 * Abs(Scaled(l, at) - Scaled(x, at))
                <= 10 ^ (unit - at) + 10 ^ (0 - decimals - at)

Priced(c) == c.op \in MarketOps /\ Pos(c, "order_request") # {}

\* What the call was asked for, read off its arguments and the answers of
\* the metadata service.
AskedSlippage(c) == IF IsSome(c.args.slippage) THEN c.args.slippage[1] ELSE Dec(5, -2)
AskedReference(c) == IF IsSome(c.args.px) THEN c.args.px[1] ELSE OutOf(c, "parse")
AskedBuy(c) ==
    IF c.op = "market_close" THEN OutOf(c, "parse_szi").m < 0 ELSE c.args.is_buy
AskedSize(c) ==
    IF c.op # "market_close" THEN c.args.sz
    ELSE IF IsSome(c.args.sz) THEN c.args.sz[1]
    ELSE Dec(Abs(OutOf(c, "parse_szi").m), OutOf(c, "parse_szi").e)
ExactPrice(c) ==
    f64_mul(AskedReference(c),
            IF AskedBuy(c) THEN f64_add(Dec(1, 0), AskedSlippage(c))
            ELSE f64_add(Dec(1, 0), f64_neg(AskedSlippage(c))))
PriceDecimals(c) ==
    LET m == IF client.coin_to_asset[c.args.asset] < 10000 THEN 6 ELSE 8
        szd == OutOf(c, "find_asset").sz_decimals
    IN  IF m > szd THEN m - szd ELSE 0

C19_MarketPriceAndSize ==
    (Finished /\ Priced(call)) =>
        LET request == OutOf(call, "order_request")
            szd == OutOf(call, "find_asset").sz_decimals
        IN  /\ request.is_buy = AskedBuy(call)
            /\ RoundingOf(request.limit_px, ExactPrice(call), 5, PriceDecimals(call))
            /\ request.sz.m # 0 => request.sz.e >= 0 - szd
            /\ LET at == Least(Least(request.sz.e, AskedSize(call).e), 0 - szd)
               IN  2 * Abs(Scaled(request.sz, at) - Scaled(AskedSize(call), at))
                        <= 10 ^ (0 - szd - at)

\* A sell at the default slippage off the mid, on a perpetual whose price
\* is cut to five significant figures, and which was posted.
C19_Witness ==
    /\ Finished
    /\ Priced(call)
    /\ call.op = "market_open"
    /\ call.args.px = None /\ call.args.slippage = None /\ ~call.args.is_buy
    /\ OutOf(call, "order_request").limit_px = Dec(285, 2)
    /\ OutOf(call, "order_request").sz = Dec(123, -2)
    /\ Posts(call) # <<>>

\* The price of an asset indexed at 10000 or above keeps up to 8 - szDecimals
\* decimals: 0.00123456 * 1.05 = 0.001296288 is cut to 0.001296.
C19_WitnessSpot ==
    /\ Finished
    /\ Priced(call)
    /\ client.coin_to_asset[call.args.asset] >= 10000
    /\ call.args.px = None /\ call.args.slippage = None
    /\ OutOf(call, "find_asset").sz_decimals = 2
    /\ OutOf(call, "order_request").limit_px = Dec(1296, -6)

(***************************************************************************)
(* C20.  Once unsubscribe has returned, no further message is delivered to *)
(* the subscription; the messages delivered before stay in the endpoint    *)
(* and can still be received; a subscription that is cancelled before any  *)
(* message arrives gets no delivery at all.                                *)
(***************************************************************************)
LogAt(ev) == {i \in 1..Len(ws.log) : ws.log[i].ev = ev}

\* The messages delivered to, and received by, an owner, in order.
DeliveredTo(who) ==
    SelectSeq(ws.log, LAMBDA e : e.ev = "deliver" /\ e.to = who)
MsgsOf(events) == [i \in 1..Len(events) |-> events[i].msg]

C20_UnsubscribeStopsDelivery ==
    /\ \A u \in LogAt("unsubscribe"), d \in LogAt("deliver") :
            ws.log[d].id = ws.log[u].id => d < u
    /\ \A who \in Subscribers :
            MsgsOf(DeliveredTo(who)) = ws.got[who] \o ws.inbox[who]
    /\ \A s \in LogAt("subscribe"), u \in LogAt("unsubscribe") :
            (/\ ws.log[s].id = ws.log[u].id
             /\ \A a \in LogAt("arrive") : a < s \/ a > u)
            => \A d \in LogAt("deliver") : ws.log[d].id # ws.log[s].id

\* A subscription got a message and was cancelled; a second message
\* arrived afterwards; the owner has received the first message and the end
\* of the stream, and nothing else.
C20_Witness ==
    \E s \in LogAt("subscribe"), d \in LogAt("deliver"),
       u \in LogAt("unsubscribe"), a \in LogAt("arrive") :
        /\ ws.log[d].id = ws.log[s].id
        /\ ws.log[u].id = ws.log[s].id
        /\ d < u /\ u < a
        /\ ws.table = <<>>
        /\ Len(ws.upstream) = 2
        /\ ws.got[ws.log[s].to] = <<ws.log[d].msg>>
        /\ ws.inbox[ws.log[s].to] = <<>>
        /\ ws.log[s].to \in ws.ended

(***************************************************************************)
(* C21.  When one of two subscriptions to the same topic is cancelled, the *)
(* other is handed every message of the topic that arrives afterwards      *)
(* while it is registered, its owner loses none of them, and the           *)
(* cancellation sends no unsubscribe frame upstream.                       *)
(***************************************************************************)
\* Where the log cancels a subscription: past its end when it does not.
CancelledAt(id) ==
    LET at == {u \in LogAt("unsubscribe") : ws.log[u].id = id}
    IN  IF at = {} THEN Len(ws.log) + 1 ELSE CHOOSE u \in at : TRUE

\* The subscriptions registered for a topic at a position of the log.
ActiveAt(topic, i) ==
    {ws.log[s].id : s \in {x \in LogAt("subscribe") :
        /\ ws.log[x].topic = topic /\ x < i /\ i < CancelledAt(ws.log[x].id)}}

OtherKeepsReceiving ==
    \A u \in LogAt("unsubscribe"), a \in LogAt("arrive") :
        (u < a /\ ws.log[a].topic = ws.log[u].topic)
        => \A id \in ActiveAt(ws.log[u].topic, u) \cap ActiveAt(ws.log[a].topic, a) :
            \E d \in LogAt("deliver") :
                /\ d > a
                /\ ws.log[d].id = id
                /\ ws.log[d].msg = ws.log[a].msg
                /\ \E k \in 1..Len(ws.got[ws.log[d].to] \o ws.inbox[ws.log[d].to]) :
                        (ws.got[ws.log[d].to] \o ws.inbox[ws.log[d].to])[k] = ws.log[a].msg

\* A step that cancels one subscription of a topic and leaves another.
CancelsOneOfSeveral ==
    /\ Len(ws'.table) < Len(ws.table)
    /\ \E i \in 1..Len(ws.table) :
            /\ \A j \in 1..Len(ws'.table) : ws'.table[j].id # ws.table[i].id
            /\ Registered(ws', ws.table[i].topic) # <<>>

C21_OtherSubscriberUndisturbed ==
    /\ []OtherKeepsReceiving
    /\ [][CancelsOneOfSeveral => ws'.upstream = ws.upstream]_vars

\* Both callers subscribed to one topic, the first cancelled, a message of
\* the topic arrived afterwards and the second caller has received it; the
\* server has been sent the one subscribe frame.
C21_Witness ==
    \E u \in LogAt("unsubscribe"), a \in LogAt("arrive") :
        /\ u < a
        /\ ws.log[a].topic = ws.log[u].topic
        /\ ws.log[u].to = "a"
        /\ ActiveAt(ws.log[u].topic, u) \cap ActiveAt(ws.log[a].topic, a) # {}
        /\ ws.got["b"] = <<ws.log[a].msg>>
        /\ ws.inbox["a"] = <<>> /\ ws.got["a"] = <<>>
        /\ ws.upstream = <<[method |-> "subscribe", topic |-> ws.log[u].topic]>>

(***************************************************************************)
(* C22.  Over any sequence of subscribe and unsubscribe calls a subscribe  *)
(* frame goes upstream exactly when a subscribe registers the first        *)
(* subscriber of a topic and an unsubscribe frame exactly when an          *)
(* unsubscribe removes the last one, so a topic is subscribed upstream     *)
(* exactly while the table holds an entry for it; subscribe returns its id *)
(* without any frame from the server having been read.                     *)
(***************************************************************************)
\* The topic's last control frame says "subscribe".
SubscribedUpstream(topic) ==
    LET frames == SelectSeq(ws.upstream, LAMBDA f : f.topic = topic)
    IN  frames # <<>> /\ frames[Len(frames)].method = "subscribe"

UpstreamMatchesTable ==
    \A topic \in Topics :
        SubscribedUpstream(topic) <=> Registered(ws, topic) # <<>>

\* What a step does to the table, and the frame it sends.
Registers(topic) ==
    /\ Len(ws'.table) = Len(ws.table) + 1
    /\ ws'.table[Len(ws'.table)].topic = topic
Removes(topic) ==
    /\ Len(ws'.table) = Len(ws.table) - 1
    /\ Len(Registered(ws', topic)) = Len(Registered(ws, topic)) - 1
Sends(method, topic) ==
    ws'.upstream = Append(ws.upstream, [method |-> method, topic |-> topic])

FramesFollowTable ==
    /\ \/ ws'.upstream = ws.upstream
       \/ \E m \in {"subscribe", "unsubscribe"}, t \in Topics : Sends(m, t)
    /\ \A t \in Topics :
        /\ Sends("subscribe", t) <=> (Registers(t) /\ Registered(ws, t) = <<>>)
        /\ Sends("unsubscribe", t) <=> (Removes(t) /\ Registered(ws', t) = <<>>)
    /\ (\E t \in Topics : Registers(t)) =>
            /\ ws'.arrived = ws.arrived
            /\ ws'.log[Len(ws'.log)].ev = "subscribe"
            /\ ws'.log[Len(ws'.log)].id = ws'.table[Len(ws'.table)].id

C22_ControlFramesFollowTable ==
    /\ []UpstreamMatchesTable
    /\ [][FramesFollowTable]_vars

\* Two subscriptions to one topic were registered and then cancelled
\* before any frame arrived: one subscribe frame, one unsubscribe frame.
C22_Witness ==
    /\ ws.arrived = 0
    /\ Cardinality(LogAt("subscribe")) = 2
    /\ Cardinality(LogAt("unsubscribe")) = 2
    /\ ws.table = <<>>
    /\ ws.upstream = <<[method |-> "subscribe", topic |-> "notification"],
                       [method |-> "unsubscribe", topic |-> "notification"]>>

(***************************************************************************)
(* C23.  For every subscription the messages handed to its endpoint, and   *)
(* the messages its owner receives from the endpoint, come in the order    *)
(* in which they arrived on the connection, however subscribe and          *)
(* unsubscribe calls interleave with the dispatch loop.                    *)
(***************************************************************************)
\* The messages delivered for one subscription, in the order of delivery.
DeliveredFor(id) ==
    MsgsOf(SelectSeq(ws.log, LAMBDA e : e.ev = "deliver" /\ e.id = id))

Ascending(msgs) == \A i, j \in 1..Len(msgs) : i < j => msgs[i] < msgs[j]
NotDescending(msgs) == \A i, j \in 1..Len(msgs) : i < j => msgs[i] <= msgs[j]

C23_DeliveryIsFifo ==
    /\ \A s \in LogAt("subscribe") : Ascending(DeliveredFor(ws.log[s].id))
    /\ \A who \in Subscribers :
        /\ NotDescending(ws.got[who] \o ws.inbox[who])
        /\ \E k \in 0..Len(DeliveredTo(who)) :
                ws.got[who] = SubSeq(MsgsOf(DeliveredTo(who)), 1, k)

\* A subscription was handed two messages, another subscription was
\* registered or cancelled between the two arrivals, and the owner has
\* received both messages.
C23_Witness ==
    \E s \in LogAt("subscribe"), x \in LogAt("subscribe") \cup LogAt("unsubscribe") :
        /\ DeliveredFor(ws.log[s].id) = <<1, 2>>
        /\ ws.log[x].id # ws.log[s].id
        /\ \E d1, d2 \in LogAt("deliver") :
                /\ ws.log[d1].id = ws.log[s].id /\ ws.log[d2].id = ws.log[s].id
                /\ d1 < x /\ x < d2
        /\ ws.got[ws.log[s].to] = <<1, 2>>

(***************************************************************************)
(* C24.  A message that arrives is handed to exactly the endpoints         *)
(* registered for its topic at that moment: to each of them, to none       *)
(* registered for another topic, to nobody when no subscription matches.   *)
(* A frame of a shape the Message union does not know is handed to nobody, *)
(* removes no subscription, ends no stream, and the loop dispatches the    *)
(* frames that follow it.                                                  *)
(***************************************************************************)
\* The subscriptions a message was delivered for, and where the log says so.
DeliveriesOf(msg) == {d \in LogAt("deliver") : ws.log[d].msg = msg}

OwnerOf(id) ==
    ws.log[CHOOSE s \in LogAt("subscribe") : ws.log[s].id = id].to

ExactFanOut ==
    /\ \A a \in LogAt("arrive") :
        LET ds == DeliveriesOf(ws.log[a].msg)
            ids == ActiveAt(ws.log[a].topic, a)
        IN  /\ {ws.log[d].id : d \in ds} = ids
            /\ Cardinality(ds) = Cardinality(ids)
            /\ ds = (a + 1)..(a + Cardinality(ids))
            /\ \A d \in ds : /\ ws.log[d].to = OwnerOf(ws.log[d].id)
                              /\ ws.log[d].topic = ws.log[a].topic
    /\ \A x \in LogAt("undecodable") : DeliveriesOf(ws.log[x].msg) = {}
    /\ \A d \in LogAt("deliver") :
            \E a \in LogAt("arrive") : ws.log[a].msg = ws.log[d].msg

\* A step of the dispatch loop on a frame that does not decode.
DropsFrame ==
    /\ Len(ws'.log) = Len(ws.log) + 1
    /\ ws'.log[Len(ws'.log)].ev = "undecodable"

C24_RoutedToMatchingEndpointsOnly ==
    /\ []ExactFanOut
    /\ [][DropsFrame => /\ ws'.table = ws.table
                        /\ ws'.upstream = ws.upstream
                        /\ ws'.inbox = ws.inbox
                        /\ ws'.ended = ws.ended]_vars

\* Subscriptions to both topics are registered; a frame of unknown shape
\* arrived and went to nobody, then a message of the first topic arrived
\* and went to its subscriber alone.
C24_Witness ==
    \E x \in LogAt("undecodable"), a \in LogAt("arrive") :
        /\ x < a
        /\ ws.log[a].topic = "notification"
        /\ Len(Registered(ws, "notification")) = 1
        /\ Len(Registered(ws, "orderUpdates")) = 1
        /\ ws.inbox["a"] = <<ws.log[a].msg>>
        /\ ws.inbox["b"] = <<>> /\ ws.got["b"] = <<>>
        /\ ws.ended = {}

\* A message of a topic arrived while no subscription matched it, with a
\* subscription to the other topic registered: nobody holds it.
C24_WitnessNoMatch ==
    \E a \in LogAt("arrive") :
        /\ ws.log[a].topic = "notification"
        /\ ActiveAt("notification", a) = {}
        /\ ActiveAt("orderUpdates", a) # {}
        /\ \A who \in Subscribers : ws.inbox[who] \o ws.got[who] = <<>>


(***************************************************************************)
(* C25.  Once the caller's subscriptions are cancelled the endpoint is     *)
(* closed: the owner draining it receives what it still holds and then the *)
(* end of the stream, which ends the receive loop.  The router closes no   *)
(* endpoint otherwise: a stream ends only after an unsubscribe of its      *)
(* owner, never by the passing of time.                                    *)
(***************************************************************************)
CancelledFor(who) ==
    \E u \in LogAt("unsubscribe") : ws.log[u].to = who

ClosedOnlyByUnsubscribe ==
    \A who \in Subscribers :
        /\ Closed(ws, who) => CancelledFor(who)
        /\ who \in ws.ended =>
            /\ Closed(ws, who)
            /\ ws.inbox[who] = <<>>
            /\ ws.got[who] = MsgsOf(DeliveredTo(who))

Hashed(c) == StepsOf(c, "hash")[1][2]

\* The steps between the nonce and the request all succeeded.
Sealed(c) ==
    \A name \in {"hash", "to_value", "sign_l1_action", "to_string"} :
        /\ Len(StepsOf(c, name)) = 1
        /\ IsOk(StepsOf(c, name)[1][3])

EnvelopeMatchesSigned(self, c) ==
    LET h == Hashed(c)
        e == Envelope(c)
        sig == OutOf(c, "sign_l1_action")
    IN  /\ Len(Posts(c)) = 1
        /\ h.vault_address = self.vault_address
        /\ StepsOf(c, "hash")[1][3] =
                Actions_hash(h.action, h.timestamp, self.vault_address,
                             [fault |-> "none"])
        /\ e.action = Serialize(h.action)
        /\ e.nonce = h.timestamp
        /\ IF IsSome(h.vault_address)
           THEN /\ "vaultAddress" \in DOMAIN e
                /\ e.vaultAddress = h.vault_address[1]
           ELSE "vaultAddress" \notin DOMAIN e
        /\ sig.msg = encode_eip712(
                [struct |-> "Agent",
                 source |-> IF is_mainnet(self.http_client) THEN "a" ELSE "b",
                 connection_id |-> OutOf(c, "hash")])
        /\ e.signature = [r |-> <<"r", sig.signer, sig.msg>>,
                          s |-> <<"s", sig.signer, sig.msg>>,
                          v |-> sig.recid + 27]

C26_EnvelopeMatchesSigned ==
    (Finished /\ StepsOf(call, "hash") # <<>>) =>
        IF Sealed(call)
        THEN EnvelopeMatchesSigned(client, call)
        ELSE Posts(call) = <<>>

\* A vault client's call, signed by the wallet given to the call with
\* recovery id 1, was posted: the envelope names the vault and has v = 28.
C26_Witness ==
    /\ Finished
    /\ StepsOf(call, "hash") # <<>>
    /\ Sealed(call)
    /\ IsSome(client.vault_address)
    /\ IsSome(call.args.wallet)
    /\ Envelope(call).vaultAddress = client.vault_address[1]
    /\ Envelope(call).signature.v = 28

\* A call whose signing failed after hashing and encoding posted nothing.
C26_WitnessUnsigned ==
    /\ Finished
    /\ StepsOf(call, "to_value") # <<>>
    /\ StepsOf(call, "sign_l1_action") # <<>>
    /\ ~IsOk(StepsOf(call, "sign_l1_action")[1][3])
    /\ Posts(call) = <<>>

(***************************************************************************)
(* C27.  vault_transfer names in its action the client's own vault address *)
(* whenever the client has one, and the vault_address argument only when   *)
(* the client has none.  The vault address bound into the hash and placed  *)
(* in the envelope is the client's in either case, absent when the client  *)
(* has none, and never the argument.                                       *)
(***************************************************************************)
\* The vault the action of a vault_transfer call names.
NamedVault(c) == Hashed(c).action.inner.vault_address

C27_VaultTransferVaults ==
    (Finished /\ call.op = "vault_transfer" /\ StepsOf(call, "hash") # <<>>) =>
        /\ NamedVault(call) =
                IF IsSome(client.vault_address)
                THEN client.vault_address[1]
                ELSE call.args.vault_address[1]
        /\ Hashed(call).vault_address = client.vault_address
        /\ IsOk(StepsOf(call, "hash")[1][3]) =>
                StepsOf(call, "hash")[1][3] =
                    Actions_hash(Hashed(call).action, Hashed(call).timestamp,
                                 client.vault_address, [fault |-> "none"])
        /\ Posts(call) # <<>> =>
            /\ Envelope(call).action =
                    Serialize(Actions("VaultTransfer",
                        [vault_address |-> NamedVault(call),
                         is_deposit |-> call.args.is_deposit,
                         usd |-> call.args.usd]))
            /\ IF IsSome(client.vault_address)
               THEN Envelope(call).vaultAddress = client.vault_address[1]
               ELSE "vaultAddress" \notin DOMAIN Envelope(call)

\* A client with a vault was given another vault as the argument and
\* posted: action, hash and envelope carry the client's vault.
C27_Witness ==
    /\ Finished /\ call.op = "vault_transfer"
    /\ client.vault_address = Some(Vault1)
    /\ call.args.vault_address = Some(Vault2)
    /\ Posts(call) # <<>>
    /\ NamedVault(call) = Vault1
    /\ Envelope(call).vaultAddress = Vault1

\* A client without a vault was given a vault as the argument and posted:
\* the action names the argument, hash and envelope carry no vault.
C27_WitnessArgument ==
    /\ Finished /\ call.op = "vault_transfer"
    /\ client.vault_address = None
    /\ Posts(call) # <<>>
    /\ NamedVault(call) = Vault2
    /\ Hashed(call).vault_address = None

(***************************************************************************)
(* C28.  vault_transfer on a client without a vault address, called        *)
(* without a vault_address argument, returns VaultAddressNotFound and does *)
(* nothing else: it draws no nonce, hashes and signs nothing and sends no  *)
(* request.                                                                *)
(***************************************************************************)
NoVaultAnywhere ==
    /\ call.op = "vault_transfer"
    /\ client.vault_address = None
    /\ call.args.vault_address = None

ReturnsVaultAddressNotFound ==
    (Finished /\ NoVaultAnywhere) =>
        /\ pc = "returned"
        /\ call.result = Err("VaultAddressNotFound")
        /\ \A i \in 1..Len(call.trace) : call.trace[i][1] = "vault_address"
        /\ Nonces(call) = <<>>
        /\ StepsOf(call, "hash") = <<>>
        /\ SignSteps(call) = <<>>
        /\ Posts(call) = <<>>

C28_NoVaultNoWork ==
    /\ []ReturnsVaultAddressNotFound
    /\ [][(pc = "idle" /\ NoVaultAnywhere') => CUR_NONCE' = CUR_NONCE]_vars

\* The call was made with a wallet of its own after an earlier call had
\* drawn a nonce: it returned the error and the counter stands where it was.
C28_Witness ==
    /\ Finished /\ NoVaultAnywhere
    /\ IsSome(call.args.wallet)
    /\ call.result = Err("VaultAddressNotFound")
    /\ CUR_NONCE > 0

(***************************************************************************)
(* C29.  market_close looks up the position of the wallet that signs the   *)
(* call.  When that wallet holds a position in the asset, the order it     *)
(* builds is a reduce-only IOC limit order on the side opposite to the     *)
(* position (a buy exactly when the position size is negative), of the     *)
(* requested size, or of the absolute position size when none is           *)
(* requested, rounded to the asset's szDecimals, and exactly that one      *)
(* order is posted, signed by that wallet.  When the wallet holds no       *)
(* position in the asset the call returns AssetNotFound and posts nothing. *)
(***************************************************************************)
\* The wallet that signs a market_close call.
Closer(c) == unwrap_or(c.args.wallet, client.wallet)

\* r is x rounded to d decimals: on the grid of 10^-d, at most half a unit
\* away.
RoundedToDecimals(r, x, d) ==
    /\ r.m # 0 => r.e >= 0 - d
    /\ LET at == Least(Least(r.e, x.e), 0 - d)
       IN  2 * Abs(Scaled(r, at) - Scaled(x, at)) <= 10 ^ (0 - d - at)

NoPosition(c) ==
    /\ StepsOf(c, "find_position") # <<>>
    /\ StepsOf(c, "find_position")[1][3] = Err("AssetNotFound")

ClosingOrder(c) ==
    LET request == OutOf(c, "order_request")
        szi == OutOf(c, "parse_szi")
    IN  /\ request.asset = c.args.asset
        /\ request.reduce_only
        /\ request.tif = "Ioc"
        /\ request.is_buy <=> szi.m < 0
        /\ RoundedToDecimals(request.sz,
                IF IsSome(c.args.sz) THEN c.args.sz[1] ELSE Dec(Abs(szi.m), szi.e),
                OutOf(c, "find_asset").sz_decimals)
        /\ c.args.asset \in DOMAIN client.coin_to_asset =>
            /\ Len(Posts(c)) = 1
            /\ Len(Nonces(c)) = 1
            /\ Hashed(c).action.variant = "Order"
            /\ Hashed(c).action.inner.orders =
                    << [asset |-> client.coin_to_asset[c.args.asset],
                        is_buy |-> szi.m < 0,
                        reduce_only |-> TRUE] >>
            /\ Envelope(c).action = Serialize(Hashed(c).action)
            /\ SignedBy(c, Closer(c))
        /\ c.args.asset \notin DOMAIN client.coin_to_asset => Posts(c) = <<>>

C29_WitnessLong ==
    /\ Finished /\ call.op = "market_close"
    /\ call.args.asset = SpotUniverse[1] /\ IsSome(call.args.sz)
    /\ StepsOf(call, "order_request") # <<>>
    /\ ~OutOf(call, "order_request").is_buy
    /\ OutOf(call, "order_request").sz = Dec(123, -2)
    /\ Len(Posts(call)) = 1

\* The wallet holds no position in the asset: AssetNotFound, nothing posted.
C29_WitnessNoPosition ==
    /\ Finished /\ call.op = "market_close"
    /\ NoPosition(call)
    /\ call.args.asset = NewCoin
    /\ IsSome(call.args.wallet)
    /\ call.result = Err("AssetNotFound")
    /\ Posts(call) = <<>>

====
